---------------------------- MODULE Spec2Model ----------------------------
(***************************************************************************)
(* OpenTanktrouble: the update thread of the game scene                    *)
(* (GameScene::manage in src/scene/game_scene/mod.rs), the render frames   *)
(* that consume its snapshots, the admission and stop interfaces of the    *)
(* scene, and the environment they run in (tick timer, input events).      *)
(*                                                                         *)
(* Channels follow crossbeam_channel: a bounded(0) channel transfers a     *)
(* message only as a rendezvous of a blocked sender with a receiver, an    *)
(* unbounded channel is a FIFO queue, tick() holds at most one pending     *)
(* message, and an operation on a channel whose peer is gone is ready and  *)
(* completes with an error (a receive only once the queue is empty).       *)
(*                                                                         *)
(* The rigid-body engine (rapier2d) is outside the repository.  Its step   *)
(* is modelled on one axis as symplectic Euler integration of the force    *)
(* that update_tick applies: linvel' = linvel + acl, position' =           *)
(* position + linvel'.  Rotation, damping and contacts are not modelled.   *)
(***************************************************************************)
EXTENDS Integers, Sequences, FiniteSets, TLC

\* ----------------------------------------------------------------- bounds
MaxCtrl == 2        \* controllers that can ask for admission
MaxSeq  == 2        \* physics ticks explored
MaxFire == 1        \* fire messages that can be pending

Controllers == 1..MaxCtrl

\* Acceleration component of movement_status, in fifths: idle = 0 and
\* forward pressed = 1.0.
Acl == {0, 5}

\* Option<T>: None is the empty sequence, Some(x) the one-element sequence.
None == << >>
Some(x) == <<x>>
Unwrap(o) == o[1]

\* Operations registered in the Select of the inner loop.
i_ticker              == "ticker"
i_update_sender       == "update_sender"
i_q                   == "q"
i_controller_receiver == "controller_receiver"
i_stop_receiver       == "stop_receiver"

\* Positions of the update thread at which it has left manage().
Terminated == {"stopped", "failed", "panicked"}

VARIABLES
    pc,              \* position of the update thread
    tanks,           \* PhysicalStatus.tanks
    seq_number,      \* PhysicalStatus.seq_number
    rigid_body_set,  \* PhysicalStatus.rigid_body_set, handle = index
    update_data,     \* Option<Vec<TankInstance>> of the current tick
    selector,        \* operations in the Select of the inner loop
    ticker,          \* the tick() channel holds a message
    ctrl_chan,       \* unbounded admission channel
    fire_chan,       \* messages pending on fire_receiver
    fire_alive,      \* the fire sender still exists
    scene,           \* life cycle of the GameScene value
    rpc,             \* position of the render frame
    last_recv,       \* tick and length of the snapshot render received last
                     \* (and, as history, the tick of the one before it)
    instance_num,    \* TankLayer buffer.instance_num
    maze_recv,       \* render has received the MazeData
    pubs,            \* history: snapshots sent since the last update_tick
    handled,         \* history: admission requests handled
    ticks_recv,      \* history: tick-timer messages consumed
    returned,        \* history: add_controller calls that have returned
    first_at         \* history: ticks_recv at the first add_controller

vars == <<pc, tanks, seq_number, rigid_body_set, update_data, selector,
          ticker, ctrl_chan, fire_chan, fire_alive, scene, rpc, last_recv,
          instance_num, maze_recv, pubs, handled, ticks_recv, returned,
          first_at>>

sched_vars == <<pc, tanks, seq_number, rigid_body_set, update_data, selector>>
chan_vars  == <<ticker, ctrl_chan, fire_chan, fire_alive>>
scene_vars == <<scene, rpc, last_recv, instance_num, maze_recv>>
hist_vars  == <<pubs, handled, ticks_recv, returned, first_at>>

\* Maze generation and meshing (src/scene/maze.rs) and the keyboard
\* controller (src/input/keyboard_controller.rs) are pure computations on
\* their own data.  Each is explored by a specification of its own
\* (MazeSpec, KeyboardSpec); in the specification of the update thread
\* their variables rest at the values below.
VARIABLES
    rng,             \* the generator handed to Maze::new: seed and position
    gpc,             \* position of the generation run
    run,             \* number of the generation run on this seed
    maze,            \* Option<Maze>
    render_mesh,     \* Option of (Vec<Vertex>, Vec<u32>)
    physic_mesh,     \* Option of (Vec<Point<f32>>, Vec<[u32; 3]>)
    reads,           \* history: temp_maze[row][col] evaluated in this run
    first_run,       \* history: what the first run on this seed produced
    key_map,         \* Keyboard.key_map
    movement_keys,   \* Controller.movement_keys
    status,          \* Option of the last movement_status() result
    latest           \* history: per logical key, state of its latest event

\* The gamepad controller (src/input/gamepad_controller.rs), the control
\* loop of update_tick taken one tank at a time, and the clock of the
\* render frame are explored by specifications of their own as well.
VARIABLES
    gilrs,           \* gilrs state of the gamepads, by GamepadId
    controllers,     \* Gamepad.controllers: GamepadId -> cached (rot, acl)
    touched,         \* history: controllers that have had an event handled
    gp_last,         \* history: Option of the id of the event handled last
    tick_tanks,      \* number of tanks the control loop iterates over
    tick_pos,        \* tanks handled so far in the current update_tick
    tick_last,       \* Option: the tank handled last and the (rot, acl) read
    elapsed,         \* last_update.elapsed() at this moment
    forecast,        \* Option of Uniforms.forecast written by the last frame
    prep,            \* position of PrepareSceneUpdater::update
    players,         \* the Vec<Player> of manage(), in join order
    added,           \* controllers passed to the new scene, in call order
    prep_event,      \* history: Option of the event update() handled last
    mx,              \* the mutexes of the shared scene: the thread holding each
    poisoned,        \* the mutexes a thread panicked under
    tpc,             \* position of run_physic, draw and add_tank
    ntanks           \* length of the shared tank list

maze_vars == <<rng, gpc, run, maze, render_mesh, physic_mesh, reads,
               first_run>>
kb_vars   == <<key_map, movement_keys, status, latest>>
gp_vars   == <<gilrs, controllers, touched, gp_last>>
tick_vars == <<tick_tanks, tick_pos, tick_last>>
frame_vars == <<elapsed, forecast>>
prep_vars == <<prep, players, added, prep_event>>
mutex_vars == <<mx, poisoned, tpc, ntanks>>
late_vars == <<prep_vars, mutex_vars>>
more_vars == <<gp_vars, tick_vars, frame_vars, late_vars>>
rest_vars == <<maze_vars, kb_vars, more_vars>>
all_vars  == <<vars, rest_vars>>

MazeIdle ==
    /\ rng = << >>
    /\ gpc = "idle"
    /\ run = 0
    /\ maze = << >>
    /\ render_mesh = << >>
    /\ physic_mesh = << >>
    /\ reads = {}
    /\ first_run = << >>

KeyboardIdle ==
    /\ key_map = << >>
    /\ movement_keys = << >>
    /\ status = << >>
    /\ latest = << >>

GamepadIdle ==
    /\ gilrs = << >>
    /\ controllers = << >>
    /\ touched = {}
    /\ gp_last = << >>

TickIdle ==
    /\ tick_tanks = 0
    /\ tick_pos = 0
    /\ tick_last = << >>

FrameIdle ==
    /\ elapsed = 0
    /\ forecast = << >>

PrepareIdle ==
    /\ prep = "idle"
    /\ players = << >>
    /\ added = << >>
    /\ prep_event = << >>

MutexIdle ==
    /\ mx = << >>
    /\ poisoned = {}
    /\ tpc = << >>
    /\ ntanks = 0

LateIdle == PrepareIdle /\ MutexIdle

MoreIdle == GamepadIdle /\ TickIdle /\ FrameIdle /\ LateIdle

\* ------------------------------------------------------------ rigid bodies
\* RigidBodyBuilder::new_static().build()
NewStaticBody == [kind |-> "static", position |-> 0, linvel |-> 0]

\* The spawn transform: add_player sets no translation on the builder, so
\* the body is created at the origin.
SpawnPosition == 0

NewDynamicBodyOffset == [kind |-> "dynamic", position |-> 1, linvel |-> 0]

\* RigidBodyBuilder::new_dynamic()...build(): at the spawn transform, at rest.
NewDynamicBody == [kind |-> "dynamic", position |-> SpawnPosition, linvel |-> 0]

\* Arena insert: the handle is the slot the body is stored in.
InsertHandle(set) == Len(set) + 1

\* apply_force for one tank followed by pipeline.step for its body.
StepBody(body, acl) ==
    LET v == body.linvel + acl
    IN  [body EXCEPT !.linvel = v, !.position = body.position + v]

\* The control loop of update_tick followed by pipeline.step: every tank's
\* controller is read once and its body is advanced; all other bodies rest.
StepWorld(set, tks, signal) ==
    [h \in 1..Len(set) |->
        IF \E i \in 1..Len(tks) : tks[i].rigid_body_handle = h
        THEN LET i == CHOOSE i \in 1..Len(tks) : tks[i].rigid_body_handle = h
             IN  StepBody(set[h], signal[tks[i].controller])
        ELSE set[h]]

IncSeqStuck(n) == n

IncSeqTwice(n) == n + 2

\* self.seq_number += 1
IncSeq(n) == n + 1

\* One TankInstance, read from the tank's rigid body.
TankInstanceOf(set, tank) ==
    [position |-> set[tank.rigid_body_handle].position,
     velocity |-> set[tank.rigid_body_handle].linvel]

SnapshotReversed(set, tks) ==
    [i \in 1..Len(tks) |-> TankInstanceOf(set, tks[Len(tks) + 1 - i])]

\* physical.tanks.iter().map(..).collect(): one entry per tank, in order.
Snapshot(set, tks) == [i \in 1..Len(tks) |-> TankInstanceOf(set, tks[i])]

\* Select::new() followed by the five registrations.
NewSelector == {i_ticker, i_update_sender, i_q, i_controller_receiver,
                i_stop_receiver}

SelectorRemoveOther(sel, i) == sel \ {i_q}

SelectorRemoveNothing(sel, i) == sel

\* selector.remove(i)
SelectorRemove(sel, i) == sel \ {i}

PushTankReplace(tks, set, controller) ==
    <<[controller |-> controller,
       rigid_body_handle |-> InsertHandle(set),
       born |-> seq_number]>>

\* PhysicalStatus::add_player: the tank list after the push.  born is
\* history: the tick count at which the tank was admitted.
PushTank(tks, set, controller) ==
    Append(tks, [controller |-> controller,
                 rigid_body_handle |-> InsertHandle(set),
                 born |-> seq_number])

ChanSendFront(chan, msg) == <<msg>> \o chan

\* Sender::send on the unbounded channel: the message joins the queue.
ChanSend(chan, msg) == Append(chan, msg)

\* ------------------------------------------------------------------- Init
\* The scene before its update thread has run.
SchedInit ==
    /\ pc = "spawn"
    /\ tanks = << >>
    /\ seq_number = 0
    /\ rigid_body_set = << >>
    /\ update_data = None
    /\ selector = {}
    /\ ticker = FALSE
    /\ ctrl_chan = << >>
    /\ fire_chan = 0
    /\ fire_alive = TRUE
    /\ scene = "alive"
    /\ rpc = "tank"
    /\ last_recv = None
    /\ instance_num = 0
    /\ maze_recv = FALSE
    /\ pubs = 0
    /\ handled = 0
    /\ ticks_recv = 0
    /\ returned = 0
    /\ first_at = -1

Init == SchedInit /\ MazeIdle /\ KeyboardIdle /\ MoreIdle

\* ------------------------------------------------------ the update thread
ThreadStartBuffered ==
    /\ pc = "spawn"
    /\ pc' = "add_maze"
    /\ UNCHANGED <<tanks, seq_number, rigid_body_set, update_data, selector>>
    /\ UNCHANGED <<chan_vars, scene_vars, hist_vars>>
    /\ UNCHANGED rest_vars

\* The closure returned by GameScene::new is run: manage() builds the
\* PhysicalStatus and the ticker, generates the maze and its render mesh
\* and reaches the rendezvous send of the MazeData.
ThreadStart ==
    /\ pc = "spawn"
    /\ pc' = "maze_send"
    /\ UNCHANGED <<tanks, seq_number, rigid_body_set, update_data, selector>>
    /\ UNCHANGED <<chan_vars, scene_vars, hist_vars>>
    /\ UNCHANGED rest_vars

\* maze_update_sender.send(..)? when the receiver no longer exists.
MazeSendDisconnected ==
    /\ pc = "maze_send"
    /\ scene \notin {"alive", "dropping"}
    /\ pc' = "failed"
    /\ UNCHANGED <<tanks, seq_number, rigid_body_set, update_data, selector>>
    /\ UNCHANGED <<chan_vars, scene_vars, hist_vars>>
    /\ UNCHANGED rest_vars

AddMazeSkipped ==
    /\ pc = "add_maze"
    /\ pc' = "tick"
    /\ UNCHANGED <<tanks, seq_number, rigid_body_set, update_data, selector>>
    /\ UNCHANGED <<chan_vars, scene_vars, hist_vars>>
    /\ UNCHANGED rest_vars

\* physical.add_maze(..): one static body for the collision mesh.
AddMaze ==
    /\ pc = "add_maze"
    /\ rigid_body_set' = Append(rigid_body_set, NewStaticBody)
    /\ pc' = "tick"
    /\ UNCHANGED <<tanks, seq_number, update_data, selector>>
    /\ UNCHANGED <<chan_vars, scene_vars, hist_vars>>
    /\ UNCHANGED rest_vars

UpdateTickStaleSnapshot ==
    /\ pc = "tick"
    /\ \E signal \in [Controllers -> Acl] :
          rigid_body_set' = StepWorld(rigid_body_set, tanks, signal)
    /\ seq_number' = IncSeq(seq_number)
    /\ update_data' = Some([seq  |-> seq_number,
                            inst |-> Snapshot(rigid_body_set, tanks)])
    /\ selector' = NewSelector
    /\ pc' = "select"
    /\ pubs' = 0
    /\ UNCHANGED <<tanks, handled, ticks_recv, returned, first_at>>
    /\ UNCHANGED <<chan_vars, scene_vars>>
    /\ UNCHANGED rest_vars

\* Head of the outer loop: physical.update_tick(), the snapshot of the
\* tick, and a fresh Select with all five operations.  movement_status
\* returns whatever the input thread cached last: any signal.
UpdateTick ==
    /\ pc = "tick"
    /\ \E signal \in [Controllers -> Acl] :
          rigid_body_set' = StepWorld(rigid_body_set, tanks, signal)
    /\ seq_number' = IncSeq(seq_number)
    /\ update_data' = Some([seq  |-> seq_number',
                            inst |-> Snapshot(rigid_body_set', tanks)])
    /\ selector' = NewSelector
    /\ pc' = "select"
    /\ pubs' = 0
    /\ UNCHANGED <<tanks, handled, ticks_recv, returned, first_at>>
    /\ UNCHANGED <<chan_vars, scene_vars>>
    /\ UNCHANGED rest_vars

\* Branch i_ticker: the timer message is taken, continue 'next_update.
TickerBranch ==
    /\ pc = "select"
    /\ i_ticker \in selector
    /\ ticker
    /\ seq_number < MaxSeq
    /\ ticker' = FALSE
    /\ pc' = "tick"
    /\ update_data' = None
    /\ selector' = {}
    /\ ticks_recv' = ticks_recv + 1
    /\ UNCHANGED <<tanks, seq_number, rigid_body_set>>
    /\ UNCHANGED <<ctrl_chan, fire_chan, fire_alive, scene_vars,
                   pubs, handled, returned, first_at>>
    /\ UNCHANGED rest_vars

\* Branch i_q with a message pending: it is logged and dropped.
FireBranch ==
    /\ pc = "select"
    /\ i_q \in selector
    /\ fire_chan > 0
    /\ fire_chan' = fire_chan - 1
    /\ UNCHANGED <<sched_vars, ticker, ctrl_chan, fire_alive, scene_vars,
                   hist_vars>>
    /\ UNCHANGED rest_vars

FireDisconnectedIgnored ==
    /\ pc = "select"
    /\ i_q \in selector
    /\ fire_chan = 0
    /\ ~fire_alive
    /\ UNCHANGED vars
    /\ UNCHANGED rest_vars

\* Branch i_q with the sender gone and nothing pending: recv(..)? returns.
FireDisconnected ==
    /\ pc = "select"
    /\ i_q \in selector
    /\ fire_chan = 0
    /\ ~fire_alive
    /\ pc' = "failed"
    /\ UNCHANGED <<tanks, seq_number, rigid_body_set, update_data, selector>>
    /\ UNCHANGED <<chan_vars, scene_vars, hist_vars>>
    /\ UNCHANGED rest_vars

ControllerBranchDropsRequest ==
    /\ pc = "select"
    /\ i_controller_receiver \in selector
    /\ ctrl_chan # << >>
    /\ ctrl_chan' = Tail(ctrl_chan)
    /\ UNCHANGED <<pc, tanks, seq_number, rigid_body_set, update_data,
                   selector>>
    /\ UNCHANGED <<ticker, fire_chan, fire_alive, scene_vars, hist_vars>>
    /\ UNCHANGED rest_vars

ControllerBranchNextUpdate ==
    /\ pc = "select"
    /\ i_controller_receiver \in selector
    /\ ctrl_chan # << >>
    /\ seq_number < MaxSeq
    /\ rigid_body_set' = Append(rigid_body_set, NewDynamicBody)
    /\ tanks' = PushTank(tanks, rigid_body_set, Head(ctrl_chan))
    /\ ctrl_chan' = Tail(ctrl_chan)
    /\ handled' = handled + 1
    /\ pc' = "tick"
    /\ update_data' = None
    /\ selector' = {}
    /\ UNCHANGED <<seq_number>>
    /\ UNCHANGED <<ticker, fire_chan, fire_alive, scene_vars,
                   pubs, ticks_recv, returned, first_at>>
    /\ UNCHANGED rest_vars

\* Branch i_controller_receiver with a request pending: add_player.
ControllerBranch ==
    /\ pc = "select"
    /\ i_controller_receiver \in selector
    /\ ctrl_chan # << >>
    /\ rigid_body_set' = Append(rigid_body_set, NewDynamicBody)
    /\ tanks' = PushTank(tanks, rigid_body_set, Head(ctrl_chan))
    /\ ctrl_chan' = Tail(ctrl_chan)
    /\ handled' = handled + 1
    /\ UNCHANGED <<pc, seq_number, update_data, selector>>
    /\ UNCHANGED <<ticker, fire_chan, fire_alive, scene_vars,
                   pubs, ticks_recv, returned, first_at>>
    /\ UNCHANGED rest_vars

\* Branch i_controller_receiver with the scene's sender gone and the queue
\* drained.
ControllerDisconnected ==
    /\ pc = "select"
    /\ i_controller_receiver \in selector
    /\ ctrl_chan = << >>
    /\ scene \notin {"alive", "dropping"}
    /\ pc' = "failed"
    /\ UNCHANGED <<tanks, seq_number, rigid_body_set, update_data, selector>>
    /\ UNCHANGED <<chan_vars, scene_vars, hist_vars>>
    /\ UNCHANGED rest_vars

\* Branch i_update_sender with the scene's receiver gone: the snapshot is
\* taken (unwrap panics if there is none) and the send returns an error.
UpdateSenderDisconnected ==
    /\ pc = "select"
    /\ i_update_sender \in selector
    /\ scene \notin {"alive", "dropping"}
    /\ pc' = IF update_data = None THEN "panicked" ELSE "failed"
    /\ update_data' = None
    /\ UNCHANGED <<tanks, seq_number, rigid_body_set, selector>>
    /\ UNCHANGED <<chan_vars, scene_vars, hist_vars>>
    /\ UNCHANGED rest_vars

StopBranchContinue ==
    /\ pc = "select"
    /\ i_stop_receiver \in selector
    /\ scene = "dropping"
    /\ scene' = "dropped"
    /\ UNCHANGED <<sched_vars, chan_vars, rpc, last_recv, instance_num,
                   maze_recv, hist_vars>>
    /\ UNCHANGED rest_vars

\* Branch i_stop_receiver as the rendezvous with the send in Drop: the
\* update thread returns Ok and drop() returns.
StopBranch ==
    /\ pc = "select"
    /\ i_stop_receiver \in selector
    /\ scene = "dropping"
    /\ pc' = "stopped"
    /\ scene' = "dropped"
    /\ UNCHANGED <<tanks, seq_number, rigid_body_set, update_data, selector>>
    /\ UNCHANGED <<chan_vars, rpc, last_recv, instance_num, maze_recv,
                   hist_vars>>
    /\ UNCHANGED rest_vars

\* Branch i_stop_receiver with the stop sender gone.
StopDisconnected ==
    /\ pc = "select"
    /\ i_stop_receiver \in selector
    /\ scene \notin {"alive", "dropping"}
    /\ pc' = "failed"
    /\ UNCHANGED <<tanks, seq_number, rigid_body_set, update_data, selector>>
    /\ UNCHANGED <<chan_vars, scene_vars, hist_vars>>
    /\ UNCHANGED rest_vars

\* ------------------------------------------------------- the render frame
UpdateInstancesKeep(num, instances) == num

\* TankLayer::update_instances: the buffer is recreated only when the
\* snapshot is longer than the current instance count.
UpdateInstances(num, instances) ==
    IF num < Len(instances) THEN Len(instances) ELSE num

\* First poll of render(): tank_update_chan.try_recv().  It succeeds
\* exactly when the update thread is blocked in select() with its send
\* registered; that is the branch i_update_sender of the update thread,
\* which takes update_data and removes the send from the Select.
RenderPollTank ==
    /\ scene = "alive"
    /\ rpc = "tank"
    /\ rpc' = "maze"
    /\ IF pc = "select" /\ i_update_sender \in selector
       THEN IF update_data = None
            THEN /\ pc' = "panicked"
                 /\ UNCHANGED <<update_data, selector, last_recv,
                                instance_num, pubs>>
            ELSE /\ last_recv' = Some([seq  |-> Unwrap(update_data).seq,
                                        len  |-> Len(Unwrap(update_data).inst),
                                        prev |-> IF last_recv = None THEN -1
                                                 ELSE Unwrap(last_recv).seq])
                 /\ instance_num' = UpdateInstances(instance_num,
                                                    Unwrap(update_data).inst)
                 /\ update_data' = None
                 /\ selector' = SelectorRemove(selector, i_update_sender)
                 /\ pubs' = pubs + 1
                 /\ UNCHANGED pc
       ELSE UNCHANGED <<pc, update_data, selector, last_recv, instance_num,
                        pubs>>
    /\ UNCHANGED <<tanks, seq_number, rigid_body_set>>
    /\ UNCHANGED <<chan_vars, scene, maze_recv, handled, ticks_recv,
                   returned, first_at>>
    /\ UNCHANGED rest_vars

RenderPollMazeBlocking ==
    /\ scene = "alive"
    /\ rpc = "maze"
    /\ pc = "maze_send"
    /\ rpc' = "tank"
    /\ maze_recv' = TRUE
    /\ pc' = "add_maze"
    /\ UNCHANGED <<tanks, seq_number, rigid_body_set, update_data, selector>>
    /\ UNCHANGED <<chan_vars, scene, last_recv, instance_num, hist_vars>>
    /\ UNCHANGED rest_vars

\* Second poll of render(): maze_update_chan.try_recv(), which succeeds
\* exactly when the update thread is blocked in its maze send; the frame
\* then writes the uniforms and ends.
RenderPollMaze ==
    /\ scene = "alive"
    /\ rpc = "maze"
    /\ rpc' = "tank"
    /\ IF pc = "maze_send"
       THEN /\ maze_recv' = TRUE
            /\ pc' = "add_maze"
       ELSE UNCHANGED <<maze_recv, pc>>
    /\ UNCHANGED <<tanks, seq_number, rigid_body_set, update_data, selector>>
    /\ UNCHANGED <<chan_vars, scene, last_recv, instance_num, hist_vars>>
    /\ UNCHANGED rest_vars

\* ------------------------------------------------ the scene's other calls
\* Scene::add_controller: a send on the unbounded channel, which returns at
\* once; if the receiver is gone the error is logged.  Controllers are
\* numbered in the order of the calls.
AddController ==
    /\ scene = "alive"
    /\ returned < MaxCtrl
    /\ ctrl_chan' = IF pc \in Terminated THEN ctrl_chan
                    ELSE ChanSend(ctrl_chan, returned + 1)
    /\ returned' = returned + 1
    /\ first_at' = IF returned = 0 THEN ticks_recv ELSE first_at
    /\ UNCHANGED <<sched_vars, ticker, fire_chan, fire_alive, scene_vars,
                   pubs, handled, ticks_recv>>
    /\ UNCHANGED rest_vars

DropBeginUnblocked ==
    /\ scene = "alive"
    /\ rpc = "tank"
    /\ scene' = "dropped"
    /\ UNCHANGED <<sched_vars, chan_vars, rpc, last_recv, instance_num,
                   maze_recv, hist_vars>>
    /\ UNCHANGED rest_vars

\* Drop for GameScene begins: stop_signal_chan.send(()) blocks.
DropBegin ==
    /\ scene = "alive"
    /\ rpc = "tank"
    /\ scene' = "dropping"
    /\ UNCHANGED <<sched_vars, chan_vars, rpc, last_recv, instance_num,
                   maze_recv, hist_vars>>
    /\ UNCHANGED rest_vars

\* The send in Drop fails because the update thread has returned: unwrap()
\* panics.
DropPanic ==
    /\ scene = "dropping"
    /\ pc \in Terminated
    /\ scene' = "panicked"
    /\ UNCHANGED <<sched_vars, chan_vars, rpc, last_recv, instance_num,
                   maze_recv, hist_vars>>
    /\ UNCHANGED rest_vars

\* A scene whose channel ends are released without the stop handshake
\* (the GameScene of playground.rs has no Drop implementation).
SceneRelease ==
    /\ scene = "alive"
    /\ rpc = "tank"
    /\ scene' = "released"
    /\ UNCHANGED <<sched_vars, chan_vars, rpc, last_recv, instance_num,
                   maze_recv, hist_vars>>
    /\ UNCHANGED rest_vars

\* ------------------------------------------------------------ environment
\* The tick() channel delivers its next message.
TimerFire ==
    /\ pc \notin {"spawn"} \cup Terminated
    /\ ~ticker
    /\ ticker' = TRUE
    /\ UNCHANGED <<sched_vars, ctrl_chan, fire_chan, fire_alive, scene_vars,
                   hist_vars>>
    /\ UNCHANGED rest_vars

\* The input side sends a fire message.
Fire ==
    /\ fire_alive
    /\ pc \notin Terminated
    /\ fire_chan < MaxFire
    /\ fire_chan' = fire_chan + 1
    /\ UNCHANGED <<sched_vars, ticker, ctrl_chan, fire_alive, scene_vars,
                   hist_vars>>
    /\ UNCHANGED rest_vars

\* The input side drops its fire sender.
DropFireSender ==
    /\ fire_alive
    /\ fire_alive' = FALSE
    /\ UNCHANGED <<sched_vars, ticker, ctrl_chan, fire_chan, scene_vars,
                   hist_vars>>
    /\ UNCHANGED rest_vars

Next ==
    \/ ThreadStart
    \/ MazeSendDisconnected
    \/ AddMaze
    \/ UpdateTick
    \/ TickerBranch
    \/ FireBranch
    \/ FireDisconnected
    \/ ControllerBranch
    \/ ControllerDisconnected
    \/ UpdateSenderDisconnected
    \/ StopBranch
    \/ StopDisconnected
    \/ RenderPollTank
    \/ RenderPollMaze
    \/ AddController
    \/ DropBegin
    \/ DropPanic
    \/ SceneRelease
    \/ TimerFire
    \/ Fire
    \/ DropFireSender

Spec == Init /\ [][Next]_all_vars

\* The update thread is scheduled, and Select picks at random among the
\* operations that are ready, so an operation that is ready again and again
\* is picked eventually.
FairSpec ==
    /\ Spec
    /\ WF_vars(AddMaze \/ UpdateTick)
    /\ SF_vars(FireBranch \/ ControllerBranch)
    /\ SF_vars(FireDisconnected \/ ControllerDisconnected
                 \/ UpdateSenderDisconnected \/ StopDisconnected)

\* The same scheduling, with the random choice of Select stated for the
\* admission branch alone: a request that is ready again and again is
\* picked eventually, whatever else is ready.
AdmissionFairSpec ==
    /\ Spec
    /\ WF_all_vars(AddMaze \/ UpdateTick)
    /\ SF_all_vars(ControllerBranch)

\* =========================================================== scene/maze.rs
\* The generator handed to Maze::new is a stream of raw draws fixed by its
\* seed.  The first two raw draws are free; the later ones follow an
\* arithmetic pattern of the seed, so that a seed stands for one whole
\* sequence of draws.
MaxDraw == 9        \* largest raw value of the first two draws
MaxSeed == 1        \* largest parameter of the pattern of the later draws

Seeds == [w : 0..MaxDraw, h : 0..MaxDraw, a : 0..MaxSeed, c : 0..MaxSeed]

\* The raw draw at position pos of the stream of a seed.
RngDraw(seed, pos) ==
    IF pos = 0 THEN seed.w
    ELSE IF pos = 1 THEN seed.h
    ELSE LET k == pos - 2
         IN  seed.c + seed.a * k + (k \div 3)

GenRangeInclusive(lo, hi, raw) == lo + (raw % (hi - lo + 1))

\* rng.gen_range(lo..hi) and Uniform::from(lo..hi).sample: a value of the
\* half-open range, fixed by the raw draw.
GenRange(lo, hi, raw) == lo + (raw % (hi - lo))

\* match num { 0 => Top, 1 => Right, 2 => Bottom, 3 => Left,
\*             _ => unreachable!() }
ToWallStatus(num) ==
    CASE num = 0 -> "Top"
      [] num = 1 -> "Right"
      [] num = 2 -> "Bottom"
      [] num = 3 -> "Left"
      [] OTHER   -> "unreachable"

WallStatus == {"Top", "Right", "Bottom", "Left"}

MazeNewSquare(seed) ==
    LET width  == GenRange(4, 13, RngDraw(seed, 0))
        height == GenRange(4, 11, RngDraw(seed, 1))
    IN  [width     |-> width,
         height    |-> height,
         temp_maze |->
            [y \in 0..height |->
               [x \in 0..width |->
                  ToWallStatus(GenRange(0, 4,
                      RngDraw(seed, 2 + y * (width + 1) + x)))]],
         draws     |-> 2 + (width + 1) * (height + 1)]

MazeNewUnseeded(seed) ==
    LET width  == GenRange(4, 13, RngDraw(seed, 0) + run)
        height == GenRange(4, 11, RngDraw(seed, 1))
    IN  [width     |-> width,
         height    |-> height,
         temp_maze |->
            [y \in 0..(height - 1) |->
               [x \in 0..(width - 1) |->
                  ToWallStatus(GenRange(0, 4,
                      RngDraw(seed, 2 + y * width + x)))]],
         draws     |-> 2 + width * height]

\* Maze::new: width, then height, then the cells row by row, each row
\* take(width) draws and take(height) rows.  draws is the number of draws
\* taken from the stream.
MazeNew(seed) ==
    LET width  == GenRange(4, 13, RngDraw(seed, 0))
        height == GenRange(4, 11, RngDraw(seed, 1))
    IN  [width     |-> width,
         height    |-> height,
         temp_maze |->
            [y \in 0..(height - 1) |->
               [x \in 0..(width - 1) |->
                  ToWallStatus(GenRange(0, 4,
                      RngDraw(seed, 2 + y * width + x)))]],
         draws     |-> 2 + width * height]

\* temp_maze[row][col]: an index outside the Vec panics.
Cell(m, row, col) ==
    IF row \in 0..(m.height - 1) /\ col \in 0..(m.width - 1)
    THEN m.temp_maze[row][col]
    ELSE "panic"

\* Coordinates are in sixteenths: x as f32 + 0.5 - width as f32 / 2.0 is
\* (16 x + 8 - 8 width) / 16 and the border 1.0 / 16.0 is 1.
Center(n, size) == 16 * n + 8 - 8 * size

\* The j-th of the four vertices pushed for grid point (x, y): borders
\* (-,-), (+,-), (-,+), (+,+).
Corner(m, x, y, j) ==
    << Center(x, m.width)  + (IF j \in {0, 2} THEN -1 ELSE 1),
       Center(y, m.height) + (IF j \in {0, 1} THEN -1 ELSE 1) >>

VertexCallsCells(m) ==
    [k \in 1..(4 * m.width * m.height) |->
        LET p == (k - 1) \div 4
        IN  Corner(m, p % m.width, p \div m.width, (k - 1) % 4)]

VertexCallsColumnMajor(m) ==
    [k \in 1..(4 * (m.width + 1) * (m.height + 1)) |->
        LET p == (k - 1) \div 4
        IN  Corner(m, p \div (m.height + 1), p % (m.height + 1),
                   (k - 1) % 4)]

\* The vertices pushed by for y in 0..=height { for x in 0..=width {..} },
\* in order.
VertexCalls(m) ==
    [k \in 1..(4 * (m.width + 1) * (m.height + 1)) |->
        LET p == (k - 1) \div 4
        IN  Corner(m, p % (m.width + 1), p \div (m.width + 1),
                   (k - 1) % 4)]

\* get_offset(x, y): the indices of the four vertices of grid point (x, y).
\* The casts to u32 are exact: no index reaches 4 * 13 * 11.
GetOffset(m, x, y) ==
    LET i == 4 * (x + y * (m.width + 1))
    IN  <<i, i + 1, i + 2, i + 3>>

HorizontalTestUnguarded(m, x, y) ==
    IF x < m.width
    THEN IF y = m.height
         THEN [wall |-> TRUE, reads |-> << >>]
         ELSE IF Cell(m, y - 1, x) = "Bottom"
         THEN [wall |-> TRUE, reads |-> << <<y - 1, x>> >>]
         ELSE [wall  |-> Cell(m, y, x) = "Top",
               reads |-> << <<y - 1, x>>, <<y, x>> >>]
    ELSE [wall |-> FALSE, reads |-> << >>]

HorizontalTestBelow(m, x, y) ==
    IF x < m.width
    THEN IF y = 0 \/ y = m.height
         THEN [wall |-> TRUE, reads |-> << >>]
         ELSE IF Cell(m, y - 1, x) = "Top"
         THEN [wall |-> TRUE, reads |-> << <<y - 1, x>> >>]
         ELSE [wall  |-> Cell(m, y, x) = "Bottom",
               reads |-> << <<y - 1, x>>, <<y, x>> >>]
    ELSE [wall |-> FALSE, reads |-> << >>]

HorizontalTestOpenBottom(m, x, y) ==
    IF x < m.width /\ y # m.height
    THEN IF y = 0
         THEN [wall |-> TRUE, reads |-> << >>]
         ELSE IF Cell(m, y - 1, x) = "Bottom"
         THEN [wall |-> TRUE, reads |-> << <<y - 1, x>> >>]
         ELSE [wall  |-> Cell(m, y, x) = "Top",
               reads |-> << <<y - 1, x>>, <<y, x>> >>]
    ELSE [wall |-> FALSE, reads |-> << >>]

\* if x < width && (y == 0 || y == height
\*     || temp_maze[y - 1][x] == Bottom || temp_maze[y][x] == Top)
\* evaluated left to right: the outcome and the cells it read.
HorizontalTest(m, x, y) ==
    IF x < m.width
    THEN IF y = 0 \/ y = m.height
         THEN [wall |-> TRUE, reads |-> << >>]
         ELSE IF Cell(m, y - 1, x) = "Bottom"
         THEN [wall |-> TRUE, reads |-> << <<y - 1, x>> >>]
         ELSE [wall  |-> Cell(m, y, x) = "Top",
               reads |-> << <<y - 1, x>>, <<y, x>> >>]
    ELSE [wall |-> FALSE, reads |-> << >>]

VerticalTestBorderOnly(m, x, y) ==
    [wall  |-> y < m.height /\ (x = 0 \/ x = m.width),
     reads |-> << >>]

\* if y < height && (x == 0 || x == width
\*     || temp_maze[y][x - 1] == Right || temp_maze[y][x] == Left)
VerticalTest(m, x, y) ==
    IF y < m.height
    THEN IF x = 0 \/ x = m.width
         THEN [wall |-> TRUE, reads |-> << >>]
         ELSE IF Cell(m, y, x - 1) = "Right"
         THEN [wall |-> TRUE, reads |-> << <<y, x - 1>> >>]
         ELSE [wall  |-> Cell(m, y, x) = "Left",
               reads |-> << <<y, x - 1>>, <<y, x>> >>]
    ELSE [wall |-> FALSE, reads |-> << >>]

\* The cells read at grid point (x, y), in order.
PointReads(m, x, y) ==
    HorizontalTest(m, x, y).reads \o VerticalTest(m, x, y).reads

\* A read outside the grid ends the call with a panic.
PointPanics(m, x, y) ==
    LET r == PointReads(m, x, y)
    IN  \E i \in 1..Len(r) : Cell(m, r[i][1], r[i][2]) = "panic"

\* The indices.push(..) calls made at grid point (x, y), in order.
PointCalls(m, x, y) ==
    LET p == GetOffset(m, x, y)
        r == GetOffset(m, x + 1, y)
        d == GetOffset(m, x, y + 1)
    IN  (IF HorizontalTest(m, x, y).wall
         THEN << <<p[1], r[2], r[4]>>, <<p[1], r[4], p[3]>> >>
         ELSE << >>)
        \o
        (IF VerticalTest(m, x, y).wall
         THEN << <<p[1], p[2], d[4]>>, <<p[1], d[4], d[3]>> >>
         ELSE << >>)

\* Grid points in the order of the loops, numbered from 0.
PointX(m, k) == k % (m.width + 1)
PointY(m, k) == k \div (m.width + 1)
Points(m) == 0..((m.width + 1) * (m.height + 1) - 1)

\* The grid point the loops stop at: the first one whose read panics, or
\* the end of the grid.
LastPoint(m) ==
    LET bad == {k \in Points(m) : PointPanics(m, PointX(m, k), PointY(m, k))}
    IN  IF bad = {} THEN (m.width + 1) * (m.height + 1)
        ELSE CHOOSE k \in bad : \A j \in bad : k <= j

RECURSIVE IndexCallsOf(_, _, _)
\* The indices.push(..) calls of grid points lo .. hi, in order.
IndexCallsOf(m, lo, hi) ==
    IF lo > hi THEN << >>
    ELSE IF lo = hi THEN PointCalls(m, PointX(m, lo), PointY(m, lo))
    ELSE LET mid == (lo + hi) \div 2
         IN  IndexCallsOf(m, lo, mid) \o IndexCallsOf(m, mid + 1, hi)

\* The cells read at grid points 0 .. last.
MeshReads(m, last) ==
    UNION {LET r == PointReads(m, PointX(m, k), PointY(m, k))
           IN  {r[i] : i \in 1..Len(r)} : k \in 0..last}

\* ------------------------------------------------- the sinks of a mesh
\* impl VertexList<f32> for Vec<Vertex> and for Vec<Point<f32>>.
PushVertex(sink, list, p0, p1) ==
    IF sink = "render"
    THEN Append(list, [position |-> <<p0, p1>>])
    ELSE Append(list, [coords |-> <<p0, p1>>])

PushTriangleSwapped(sink, list, p0, p1, p2) ==
    IF sink = "render"
    THEN list \o <<p0, p2, p1>>
    ELSE Append(list, <<p0, p1, p2>>)

\* impl TriangleIndexList<u32> for Vec<u32> and for Vec<[u32; 3]>.
PushTriangle(sink, list, p0, p1, p2) ==
    IF sink = "render"
    THEN list \o <<p0, p1, p2>>
    ELSE Append(list, <<p0, p1, p2>>)

RECURSIVE FeedVertices(_, _, _, _)
\* The list of a sink after the vertex calls lo .. hi: every push adds at
\* the end, so the list is built from its two halves.
FeedVertices(sink, calls, lo, hi) ==
    IF lo > hi THEN << >>
    ELSE IF lo = hi
    THEN PushVertex(sink, << >>, calls[lo][1], calls[lo][2])
    ELSE LET mid == (lo + hi) \div 2
         IN  FeedVertices(sink, calls, lo, mid)
                \o FeedVertices(sink, calls, mid + 1, hi)

RECURSIVE FeedTriangles(_, _, _, _)
\* The list of a sink after the index calls lo .. hi.
FeedTriangles(sink, calls, lo, hi) ==
    IF lo > hi THEN << >>
    ELSE IF lo = hi
    THEN PushTriangle(sink, << >>, calls[lo][1], calls[lo][2], calls[lo][3])
    ELSE LET mid == (lo + hi) \div 2
         IN  FeedTriangles(sink, calls, lo, mid)
                \o FeedTriangles(sink, calls, mid + 1, hi)

\* maze.triangle_mesh() with the containers of the caller: the vertex list
\* and the index list it returns, the cells it read, and whether it ended
\* with a panic instead of returning.
TriangleMesh(sink, m) ==
    LET last   == LastPoint(m)
        panic  == last \in Points(m)
        vcalls == VertexCalls(m)
        icalls == IndexCallsOf(m, 0, last - 1)
    IN  [vertices |-> FeedVertices(sink, vcalls, 1, Len(vcalls)),
         indices  |-> FeedTriangles(sink, icalls, 1, Len(icalls)),
         reads    |-> MeshReads(m, IF panic THEN last ELSE last - 1),
         panic    |-> panic]

\* The part of a mesh that is handed to the caller.
Returned(mesh) == [vertices |-> mesh.vertices, indices |-> mesh.indices]

\* ------------------------------------------------------ a generation run
MazeInit ==
    /\ rng \in [seed : Seeds, pos : {0}]
    /\ gpc = "new"
    /\ run = 1
    /\ maze = None
    /\ render_mesh = None
    /\ physic_mesh = None
    /\ reads = {}
    /\ first_run = None

\* let maze = Maze::new(&mut rng);
Generate ==
    /\ gpc = "new"
    /\ maze' = Some(MazeNew(rng.seed))
    /\ rng' = [rng EXCEPT !.pos = rng.pos + MazeNew(rng.seed).draws]
    /\ gpc' = IF \E y \in DOMAIN Unwrap(maze').temp_maze :
                 \E x \in DOMAIN Unwrap(maze').temp_maze[y] :
                    Unwrap(maze').temp_maze[y][x] = "unreachable"
              THEN "panicked" ELSE "render"
    /\ UNCHANGED <<run, render_mesh, physic_mesh, reads, first_run>>
    /\ UNCHANGED <<vars, kb_vars, more_vars>>

\* let (vertex, index) = maze.triangle_mesh();  (the MazeData)
TriangleMeshRender ==
    /\ gpc = "render"
    /\ LET mesh == TriangleMesh("render", Unwrap(maze))
       IN  /\ reads' = reads \cup mesh.reads
           /\ IF mesh.panic
              THEN gpc' = "panicked" /\ UNCHANGED render_mesh
              ELSE gpc' = "physic" /\ render_mesh' = Some(Returned(mesh))
    /\ UNCHANGED <<rng, run, maze, physic_mesh, first_run>>
    /\ UNCHANGED <<vars, kb_vars, more_vars>>

\* let (vertices, indices) = maze.triangle_mesh();  (the collision mesh)
TriangleMeshPhysic ==
    /\ gpc = "physic"
    /\ LET mesh == TriangleMesh("physic", Unwrap(maze))
       IN  /\ reads' = reads \cup mesh.reads
           /\ IF mesh.panic
              THEN gpc' = "panicked" /\ UNCHANGED physic_mesh
              ELSE gpc' = "done" /\ physic_mesh' = Some(Returned(mesh))
    /\ UNCHANGED <<rng, run, maze, render_mesh, first_run>>
    /\ UNCHANGED <<vars, kb_vars, more_vars>>

\* A second run is fed the same sequence of draws: a generator of the same
\* seed.  What the first run produced is kept for comparison.
Rerun ==
    /\ gpc = "done"
    /\ run = 1
    /\ first_run' = Some([maze |-> Unwrap(maze),
                          render_mesh |-> Unwrap(render_mesh),
                          physic_mesh |-> Unwrap(physic_mesh)])
    /\ rng' = [rng EXCEPT !.pos = 0]
    /\ run' = 2
    /\ gpc' = "new"
    /\ maze' = None
    /\ render_mesh' = None
    /\ physic_mesh' = None
    /\ reads' = {}
    /\ UNCHANGED <<vars, kb_vars, more_vars>>

MazeNext ==
    \/ Generate
    \/ TriangleMeshRender
    \/ TriangleMeshPhysic
    \/ Rerun

\* A generation run on its own: the scene and the keyboard rest.
MazeSpecInit == SchedInit /\ KeyboardIdle /\ MoreIdle /\ MazeInit

MazeSpec == MazeSpecInit /\ [][MazeNext]_all_vars

\* ========================================== input/keyboard_controller.rs
MaxScan == 1        \* scancodes 1 .. MaxScan are seen in events

\* enum Key { LogicKey(VirtualKeyCode), PhysicKey(ScanCode) }
LogicKey(code) == <<"LogicKey", code>>
PhysicKey(scancode) == <<"PhysicKey", scancode>>

ElementState == {"Pressed", "Released"}

\* InputCenter::create_controller_red / create_controller_green: the
\* movement keys in the order forward, back, left, right.
CreateControllerRed ==
    <<LogicKey("E"), LogicKey("D"), LogicKey("S"), LogicKey("F")>>
CreateControllerGreen ==
    <<LogicKey("Up"), LogicKey("Down"), LogicKey("Left"), LogicKey("Right")>>

\* The key codes that occur in events: the movement keys of the controller
\* and one key that is none of them.
KeyCodes(keys) == {keys[i][2] : i \in 1..4} \cup {"Q"}
ScanCodes == {ToString(s) : s \in 1..MaxScan}

\* winit KeyboardInput { scancode, virtual_keycode, state, .. }
KeyboardInput(keys) ==
    [scancode        : ScanCodes,
     virtual_keycode : {None} \cup {Some(c) : c \in KeyCodes(keys)},
     state           : ElementState]

\* HashMap::new()
NewMap == << >>

InsertIfAbsent(map, k, v) ==
    [x \in DOMAIN map \cup {k} |-> IF x \in DOMAIN map THEN map[x] ELSE v]

\* HashMap::insert: the value of k is replaced.
Insert(map, k, v) ==
    [x \in DOMAIN map \cup {k} |-> IF x = k THEN v ELSE map[x]]

\* HashMap::get
Get(map, k) == IF k \in DOMAIN map THEN Some(map[k]) ELSE None

\* Keyboard::input_event, on the map it locks.
InputEventOn(map, e) ==
    LET m1 == Insert(map, PhysicKey(e.scancode), e.state)
    IN  IF e.virtual_keycode # None
        THEN Insert(m1, LogicKey(Unwrap(e.virtual_keycode)), e.state)
        ELSE m1

GetValueAnyState(map, keys, key, pressed) ==
    IF Get(map, keys[key + 1]) # None THEN pressed ELSE 0

\* The closure get_value of movement_status; movement_keys is indexed
\* from 0.  Values are in fifths: 1.0 is 5 and 0.6 is 3.
GetValue(map, keys, key, pressed) ==
    IF Get(map, keys[key + 1]) = Some("Pressed") THEN pressed ELSE 0

MovementStatusEqualWeights(map, keys) ==
    << GetValue(map, keys, 3, 5) - GetValue(map, keys, 2, 5),
       GetValue(map, keys, 0, 5) - GetValue(map, keys, 1, 5) >>

\* Controller::movement_status, on the map it locks: (rotation,
\* acceleration).
MovementStatusOn(map, keys) ==
    << GetValue(map, keys, 3, 5) - GetValue(map, keys, 2, 5),
       GetValue(map, keys, 0, 5) - GetValue(map, keys, 1, 3) >>

\* A Keyboard and one sub-controller created from it.
KeyboardInit ==
    /\ key_map = NewMap
    /\ movement_keys \in {CreateControllerRed, CreateControllerGreen}
    /\ status = None
    /\ latest = << >>

\* The input thread handles one keyboard event, for a keyboard that has a
\* sub-controller.  A result of movement_status that was read before it is
\* no longer kept.
InputEvent ==
    /\ movement_keys # << >>
    /\ \E e \in KeyboardInput(movement_keys) :
          /\ key_map' = InputEventOn(key_map, e)
          /\ latest' = IF e.virtual_keycode # None
                       THEN [c \in DOMAIN latest
                                     \cup {Unwrap(e.virtual_keycode)} |->
                               IF c = Unwrap(e.virtual_keycode)
                               THEN e.state ELSE latest[c]]
                       ELSE latest
    /\ status' = None
    /\ UNCHANGED movement_keys
    /\ UNCHANGED <<vars, maze_vars, more_vars>>

\* The update thread reads the controller.
MovementStatus ==
    /\ movement_keys # << >>
    /\ status' = Some(MovementStatusOn(key_map, movement_keys))
    /\ UNCHANGED <<key_map, movement_keys, latest>>
    /\ UNCHANGED <<vars, maze_vars, more_vars>>

KeyboardNext ==
    \/ InputEvent
    \/ MovementStatus

\* The keyboard on its own: the scene and the maze rest.
KeyboardSpecInit ==
    /\ SchedInit /\ MazeIdle /\ GamepadIdle /\ TickIdle /\ FrameIdle /\ LateIdle
    /\ KeyboardInit

KeyboardSpec == KeyboardSpecInit /\ [][KeyboardNext]_all_vars

\* ============================================ input/gamepad_controller.rs
MaxPad == 2         \* gamepad ids 1 .. MaxPad send events

GamepadIds == 1..MaxPad

\* Stick positions that occur, in fifths: -1.0, 0.0 and 0.6.  gilrs reports
\* axis values in [-1.0, 1.0].
AxisValues == {-5, 0, 3}

Axes == {"RightStickX", "LeftStickX", "RightStickY", "LeftStickY"}
Buttons == {"DPadRight", "DPadLeft", "DPadUp", "DPadDown"}

\* The gilrs state of one gamepad: the axis data seen so far and the
\* buttons that are down.
GamepadStates ==
    [RightStickX : {None} \cup {Some(v) : v \in AxisValues},
     LeftStickX  : {None} \cup {Some(v) : v \in AxisValues},
     RightStickY : {None} \cup {Some(v) : v \in AxisValues},
     LeftStickY  : {None} \cup {Some(v) : v \in AxisValues},
     DPadRight : BOOLEAN, DPadLeft : BOOLEAN,
     DPadUp : BOOLEAN, DPadDown : BOOLEAN]

\* The events of a gamepad: a stick moved, a D-pad button went down or up,
\* or an event that changes neither.
GamepadEvents ==
    [kind : {"AxisChanged"}, axis : Axes, value : AxisValues]
        \cup [kind : {"ButtonChanged"}, button : Buttons, down : BOOLEAN]
        \cup [kind : {"Connected"}]

\* gilrs.next_event(): the state of the gamepad follows the event.  The
\* state is kept for gamepads with a controller only; no other is read.
NextEvent(g, id, ev) ==
    IF id \notin DOMAIN g THEN g
    ELSE IF ev.kind = "AxisChanged"
    THEN [g EXCEPT ![id][ev.axis] = Some(ev.value)]
    ELSE IF ev.kind = "ButtonChanged"
    THEN [g EXCEPT ![id][ev.button] = ev.down]
    ELSE g

\* get_axis: gamepad.axis_data(axis).map_or(0.0, |x| x.value())
GetAxis(gamepad, axis) ==
    IF gamepad[axis] = None THEN 0 ELSE Unwrap(gamepad[axis])

\* get_button: (is_pressed(pos) as i32 - is_pressed(neg) as i32) as f32
GetButton(gamepad, pos, neg) ==
    5 * ((IF gamepad[pos] THEN 1 ELSE 0) - (IF gamepad[neg] THEN 1 ELSE 0))

F32Max(a, b) == IF a >= b THEN a ELSE b
F32Min(a, b) == IF a <= b THEN a ELSE b

\* |v| (v.max(0.0), v.min(0.0))
Split(v) == <<F32Max(v, 0), F32Min(v, 0)>>

FoldStepSum(acc, x) == <<acc[1] + x[1], acc[2] + x[2]>>

\* |acc, x| (acc.0.max(x.0), acc.1.min(x.1))
FoldStep(acc, x) == <<F32Max(acc[1], x[1]), F32Min(acc[2], x[2])>>

\* One row of gamepad_status folded from (0, 0): max_x + min_x.
Control(row) ==
    LET r == FoldStep(FoldStep(FoldStep(<<0, 0>>, Split(row[1])),
                               Split(row[2])), Split(row[3]))
    IN  r[1] + r[2]

GamepadStatusUncapped(gamepad) ==
    << Control(<<GetAxis(gamepad, "RightStickX"),
                 GetAxis(gamepad, "LeftStickX"),
                 GetButton(gamepad, "DPadRight", "DPadLeft")>>),
       Control(<<GetAxis(gamepad, "RightStickY"),
                 GetAxis(gamepad, "LeftStickY"),
                 GetButton(gamepad, "DPadUp", "DPadDown")>>) >>

\* The value input_event stores: (rot, acl.max(-0.6)).
GamepadStatus(gamepad) ==
    << Control(<<GetAxis(gamepad, "RightStickX"),
                 GetAxis(gamepad, "LeftStickX"),
                 GetButton(gamepad, "DPadRight", "DPadLeft")>>),
       F32Max(Control(<<GetAxis(gamepad, "RightStickY"),
                        GetAxis(gamepad, "LeftStickY"),
                        GetButton(gamepad, "DPadUp", "DPadDown")>>), -3) >>

GamepadInputEventAnyId(ctrls, g, id) ==
    [i \in DOMAIN ctrls |-> GamepadStatus(g[i])]

\* Gamepad::input_event(Event { id, .. }): only a gamepad with a controller
\* has its cached signal recomputed.
GamepadInputEvent(ctrls, g, id) ==
    IF id \in DOMAIN ctrls
    THEN [ctrls EXCEPT ![id] = GamepadStatus(g[id])]
    ELSE ctrls

\* Controller::create_gamepad_controller has been called for one gamepad,
\* in whatever position its sticks and buttons were.
GamepadInit ==
    /\ controllers \in {[i \in {id} |-> <<0, 0>>] : id \in GamepadIds}
    /\ gilrs \in [DOMAIN controllers -> GamepadStates]
    /\ touched = {}
    /\ gp_last = None

\* Gamepad::next: an event of some gamepad is taken and handled.
GamepadEvent ==
    /\ controllers # << >>
    /\ \E id \in GamepadIds :
          \E ev \in GamepadEvents :
             /\ gilrs' = NextEvent(gilrs, id, ev)
             /\ controllers' = GamepadInputEvent(controllers, gilrs', id)
             /\ touched' = touched \cup ({id} \cap DOMAIN controllers)
             /\ gp_last' = Some(id)
    /\ status' = None
    /\ UNCHANGED <<key_map, movement_keys, latest>>
    /\ UNCHANGED <<vars, late_vars, maze_vars, tick_vars, frame_vars>>

\* movement_status of a gamepad controller: the cached signal.
GamepadMovementStatus ==
    /\ \E id \in DOMAIN controllers : status' = Some(controllers[id])
    /\ UNCHANGED <<key_map, movement_keys, latest, gp_vars>>
    /\ UNCHANGED <<vars, late_vars, maze_vars, tick_vars, frame_vars>>

\* A tank's controller is of one of the two variants.
ControllerSpecInit ==
    /\ SchedInit /\ MazeIdle /\ TickIdle /\ FrameIdle /\ LateIdle
    /\ \/ KeyboardInit /\ GamepadIdle
       \/ KeyboardIdle /\ GamepadInit

ControllerNext ==
    \/ InputEvent
    \/ MovementStatus
    \/ GamepadEvent
    \/ GamepadMovementStatus

ControllerSpec == ControllerSpecInit /\ [][ControllerNext]_all_vars

\* ================================ scene/game_scene/mod.rs: the control loop
MaxTank == 2        \* tanks in the physical status

\* prepare_scene gives the keyboard players the red and the green keys.
TankKeys(i) ==
    IF i % 2 = 1 THEN CreateControllerRed ELSE CreateControllerGreen

\* The key codes of the events while the loop runs: forward and right of
\* every tank's controller.
TickKeyCodes == {TankKeys(i)[k][2] : i \in 1..MaxTank, k \in {1, 4}}

TickKeyboardInput ==
    [scancode        : ScanCodes,
     virtual_keycode : {None} \cup {Some(c) : c \in TickKeyCodes},
     state           : ElementState]

\* The physical status has its tanks, every one with a sub-controller of
\* the one keyboard, and update_tick is about to start.
TickInit ==
    /\ tick_tanks \in 1..MaxTank
    /\ tick_pos = 0
    /\ tick_last = None

\* The input thread handles one keyboard event while the update thread is
\* somewhere in update_tick.
TickInputEvent ==
    /\ tick_tanks > 0
    /\ \E e \in TickKeyboardInput :
          /\ key_map' = InputEventOn(key_map, e)
          /\ latest' = IF e.virtual_keycode # None
                       THEN [c \in DOMAIN latest
                                     \cup {Unwrap(e.virtual_keycode)} |->
                               IF c = Unwrap(e.virtual_keycode)
                               THEN e.state ELSE latest[c]]
                       ELSE latest
    /\ UNCHANGED <<movement_keys, status, tick_vars>>
    /\ UNCHANGED <<vars, late_vars, maze_vars, gp_vars, frame_vars>>

\* One turn of `for tank in self.tanks.iter()`: the controller of the next
\* tank is read and its signal applied to the tank's body.
TickRead ==
    /\ tick_pos < tick_tanks
    /\ tick_pos' = tick_pos + 1
    /\ tick_last' = Some(<<tick_pos + 1,
                           MovementStatusOn(key_map, TankKeys(tick_pos + 1))>>)
    /\ UNCHANGED tick_tanks
    /\ UNCHANGED <<vars, late_vars, maze_vars, kb_vars, gp_vars, frame_vars>>

\* The loop is over: pipeline.step, and the next update_tick starts with
\* the first tank again.
TickStep ==
    /\ tick_tanks > 0
    /\ tick_pos = tick_tanks
    /\ tick_pos' = 0
    /\ tick_last' = None
    /\ UNCHANGED tick_tanks
    /\ UNCHANGED <<vars, late_vars, maze_vars, kb_vars, gp_vars, frame_vars>>

TickSpecInit ==
    /\ SchedInit /\ MazeIdle /\ KeyboardIdle /\ GamepadIdle /\ FrameIdle
    /\ LateIdle /\ TickInit

TickNext ==
    \/ TickInputEvent
    \/ TickRead
    \/ TickStep

TickSpec == TickSpecInit /\ [][TickNext]_all_vars

\* ================================= scene/game_scene/mod.rs: the frame clock
\* Time since last_update is counted in units of 1/900 s and a forecast in
\* units of 1/90000 s, so that elapsed * 0.99 is 99 * elapsed.
MaxElapsed == 900   \* the clock is followed up to 1.0 s after last_update

\* const PHYSICAL_DT: f32 = 1.0 / 90.0
PHYSICAL_DT == 1000

ForecastUncapped(e) == 99 * e

\* PHYSICAL_DT.min(self.last_update.elapsed().as_secs_f32() * 0.99)
Forecast(e) == F32Min(PHYSICAL_DT, 99 * e)

\* playground.rs: (self.last_update.elapsed().as_secs_f32() * 0.99)
\*                    .min(PHYSICAL_DT)
PlaygroundForecast(e) == F32Min(99 * e, PHYSICAL_DT)

\* last_update: time::Instant::now() at construction; no frame yet.
FrameInit ==
    /\ elapsed = 0
    /\ forecast = None

\* Time passes between two frames; the uniforms of the frame before are
\* no longer of interest.
Advance ==
    /\ elapsed < MaxElapsed
    /\ elapsed' = elapsed + 1
    /\ forecast' = None
    /\ UNCHANGED <<vars, late_vars, maze_vars, kb_vars, gp_vars, tick_vars>>

\* GameScene::render as far as the clock goes: a snapshot that is there
\* restarts last_update, then the uniforms are written.
Render ==
    /\ \E got \in BOOLEAN :
          /\ elapsed' = IF got THEN 0 ELSE elapsed
          /\ forecast' = Some(Forecast(elapsed'))
    /\ UNCHANGED <<vars, late_vars, maze_vars, kb_vars, gp_vars, tick_vars>>

\* The same step of the playground scene.
PlaygroundRender ==
    /\ \E got \in BOOLEAN :
          /\ elapsed' = IF got THEN 0 ELSE elapsed
          /\ forecast' = Some(PlaygroundForecast(elapsed'))
    /\ UNCHANGED <<vars, late_vars, maze_vars, kb_vars, gp_vars, tick_vars>>

FrameSpecInit ==
    /\ SchedInit /\ MazeIdle /\ KeyboardIdle /\ GamepadIdle /\ TickIdle
    /\ LateIdle /\ FrameInit

FrameNext ==
    \/ Advance
    \/ Render
    \/ PlaygroundRender

FrameSpec == FrameSpecInit /\ [][FrameNext]_all_vars

\* ================================================= scene/prepare_scene.rs
\* The key codes of the events while the prepare scene waits: the two join
\* keys and one key that is neither.
PrepareKeyCodes == {"Q", "M", "E"}

PrepareKeyboardInput ==
    [scancode        : ScanCodes,
     virtual_keycode : {None} \cup {Some(c) : c \in PrepareKeyCodes},
     state           : ElementState]

\* gilrs events of the gamepads: a button pressed or released, the join
\* button South or another one.
PrepareGamepadEvents ==
    [id : GamepadIds, button : {"South", "East"}, state : ElementState]

\* The controllers the handlers create.
RedController   == <<"Keyboard", "red">>
GreenController == <<"Keyboard", "green">>
GamepadController(id) == <<"Gamepad", ToString(id)>>

\* Player { controller, status: ControllerStatus::Prepared }
Player(c) == [controller |-> c, status |-> "Prepared"]

\* The gilrs state of a gamepad whose sticks and D-pad are at rest.
AtRest ==
    [RightStickX |-> None, LeftStickX |-> None,
     RightStickY |-> None, LeftStickY |-> None,
     DPadRight |-> FALSE, DPadLeft |-> FALSE,
     DPadUp |-> FALSE, DPadDown |-> FALSE]

WaitMoreForOne(ps) == Len(ps) < 1

\* while players.borrow().len() < 2
WaitMore(ps) == Len(ps) < 2

\* The keyboard closure of manage(): Q or M pressed pushes a player.
KeyboardHandler(ps, e) ==
    IF e.state = "Pressed" /\ e.virtual_keycode = Some("Q")
    THEN Append(ps, Player(RedController))
    ELSE IF e.state = "Pressed" /\ e.virtual_keycode = Some("M")
    THEN Append(ps, Player(GreenController))
    ELSE ps

\* The gamepad closure of manage(): South pressed pushes a player.
GamepadHandler(ps, ev) ==
    IF ev.state = "Pressed" /\ ev.button = "South"
    THEN Append(ps, Player(GamepadController(ev.id)))
    ELSE ps

\* The latest state of every key code after the event e.
LatestOn(l, e) ==
    IF e.virtual_keycode # None
    THEN [c \in DOMAIN l \cup {Unwrap(e.virtual_keycode)} |->
            IF c = Unwrap(e.virtual_keycode) THEN e.state ELSE l[c]]
    ELSE l

\* PrepareSceneUpdater::update has been called: manage() starts with no
\* player; no gamepad has a controller and all gamepads are at rest.
PrepareInit ==
    /\ prep = "wait"
    /\ players = << >>
    /\ added = << >>
    /\ prep_event = None
    /\ gilrs = [id \in GamepadIds |-> AtRest]
    /\ controllers = << >>
    /\ touched = {}
    /\ gp_last = None

\* One turn of the wait loop in which InputCenter::update receives a
\* keyboard event: the keyboard records it, the closure runs, and the loop
\* condition is tested again.
PrepareKeyboardEvent ==
    /\ prep = "wait"
    /\ \E e \in PrepareKeyboardInput :
          /\ key_map' = InputEventOn(key_map, e)
          /\ latest' = LatestOn(latest, e)
          /\ players' = KeyboardHandler(players, e)
          /\ prep_event' = Some(<<"key", e.virtual_keycode, e.state>>)
    /\ prep' = IF WaitMore(players') THEN "wait" ELSE "handover"
    /\ UNCHANGED <<added, movement_keys, status, gp_vars>>
    /\ UNCHANGED <<vars, maze_vars, tick_vars, frame_vars, mutex_vars>>

\* One turn in which update receives a gamepad event: input_event
\* recomputes the cache of that gamepad's controller, the closure runs
\* (create_gamepad_controller inserts a fresh cache for the id), and the
\* loop condition is tested again.
PrepareGamepadEvent ==
    /\ prep = "wait"
    /\ \E ev \in PrepareGamepadEvents :
          LET cached == GamepadInputEvent(controllers, gilrs, ev.id)
              joins  == ev.state = "Pressed" /\ ev.button = "South"
          IN  /\ players' = GamepadHandler(players, ev)
              /\ controllers' = IF joins
                                THEN Insert(cached, ev.id, <<0, 0>>)
                                ELSE cached
              /\ touched' = IF joins THEN touched \ {ev.id}
                            ELSE touched \cup ({ev.id} \cap DOMAIN controllers)
              /\ gp_last' = Some(ev.id)
              /\ prep_event' = Some(<<"pad", Some(ev.button), ev.state>>)
    /\ prep' = IF WaitMore(players') THEN "wait" ELSE "handover"
    /\ UNCHANGED <<added, gilrs, kb_vars>>
    /\ UNCHANGED <<vars, maze_vars, tick_vars, frame_vars, mutex_vars>>

\* A channel of the InputCenter is disconnected: update returns Err,
\* manage returns it and unwrap() panics.
PrepareDisconnected ==
    /\ prep = "wait"
    /\ prep' = "panicked"
    /\ UNCHANGED <<players, added, prep_event, kb_vars, gp_vars>>
    /\ UNCHANGED <<vars, maze_vars, tick_vars, frame_vars, mutex_vars>>

\* manage() has returned the players: the game scene is created and the
\* controllers are passed to it in the order of the Vec.
Handover ==
    /\ prep = "handover"
    /\ added' = [i \in 1..Len(players) |-> players[i].controller]
    /\ prep' = "done"
    /\ UNCHANGED <<players, prep_event, kb_vars, gp_vars>>
    /\ UNCHANGED <<vars, maze_vars, tick_vars, frame_vars, mutex_vars>>

PrepareSpecInit ==
    /\ SchedInit /\ MazeIdle /\ KeyboardIdle /\ TickIdle /\ FrameIdle
    /\ MutexIdle /\ PrepareInit

PrepareNext ==
    \/ PrepareKeyboardEvent
    \/ PrepareGamepadEvent
    \/ PrepareDisconnected
    \/ Handover

PrepareSpec == PrepareSpecInit /\ [][PrepareNext]_all_vars

\* ================================================================ maze.rs
\* The scene whose state is shared through three mutexes. run_physic runs
\* on its own thread, draw is called once per frame, add_tank by whoever
\* adds a player.
Threads == {"physic", "draw", "add"}

Mutexes == {"render", "physical", "tanks"}

\* The mutexes whose guard the thread t holds.
HeldBy(t) == {m \in Mutexes : mx[m] = t}

\* m.lock().unwrap() by thread t: it waits while another guard exists;
\* on a poisoned mutex lock() returns Err and unwrap() panics.
Unpoisoned(m) == m \notin poisoned

\* A panic of thread t: unwinding drops its guards, which poisons them.
Panic(t) ==
    /\ mx' = [m \in Mutexes |-> IF mx[m] = t THEN "free" ELSE mx[m]]
    /\ poisoned' = poisoned \cup HeldBy(t)
    /\ tpc' = [tpc EXCEPT ![t] = "panicked"]

Lock(t, m, next) ==
    /\ mx[m] = "free"
    /\ IF Unpoisoned(m)
       THEN /\ mx' = [mx EXCEPT ![m] = t]
            /\ tpc' = [tpc EXCEPT ![t] = next]
            /\ UNCHANGED poisoned
       ELSE Panic(t)

\* The guards ms of thread t are dropped.
Unlock(t, ms, next) ==
    /\ mx' = [m \in Mutexes |-> IF m \in ms /\ mx[m] = t THEN "free" ELSE mx[m]]
    /\ tpc' = [tpc EXCEPT ![t] = next]
    /\ UNCHANGED poisoned

OthersIdle == UNCHANGED <<vars, maze_vars, kb_vars, gp_vars, tick_vars,
                          frame_vars, prep_vars>>

\* GameScene::new: the mutexes are free and the tank list is empty; the
\* three threads are about to start.
MutexInit ==
    /\ mx = [m \in Mutexes |-> "free"]
    /\ poisoned = {}
    /\ tpc = [t \in Threads |->
                CASE t = "physic" -> "dt_lock"
                  [] t = "draw"   -> "idle"
                  [] t = "add"    -> "insert_lock"]
    /\ ntanks = 0

\* ---- run_physic
\* self.physical.lock().unwrap().integration_parameters.dt()
PhysicLockDt ==
    /\ tpc["physic"] = "dt_lock"
    /\ Lock("physic", "physical", "dt_read")
    /\ UNCHANGED ntanks /\ OthersIdle

PhysicUnlockDt ==
    /\ tpc["physic"] = "dt_read"
    /\ Unlock("physic", {"physical"}, "loop")
    /\ UNCHANGED ntanks /\ OthersIdle

\* let mut physical_mg = self.physical.lock().unwrap();
PhysicLockPhysical ==
    /\ tpc["physic"] = "loop"
    /\ Lock("physic", "physical", "events")
    /\ UNCHANGED ntanks /\ OthersIdle

\* gilrs.next_event() returns Some(event).
PhysicEventSome ==
    /\ tpc["physic"] = "events"
    /\ tpc' = [tpc EXCEPT !["physic"] = "ev_lock"]
    /\ UNCHANGED <<mx, poisoned, ntanks>> /\ OthersIdle

\* gilrs.next_event() returns None: the while loop ends.
PhysicEventNone ==
    /\ tpc["physic"] = "events"
    /\ tpc' = [tpc EXCEPT !["physic"] = "for_lock"]
    /\ UNCHANGED <<mx, poisoned, ntanks>> /\ OthersIdle

\* self.tanks.lock().unwrap() of the assignment to tanks[0].controller
PhysicLockTanksEvent ==
    /\ tpc["physic"] = "ev_lock"
    /\ Lock("physic", "tanks", "ev_write")
    /\ UNCHANGED ntanks /\ OthersIdle

\* [0].controller = Gamepad(..): indexing an empty Vec panics; otherwise
\* the guard is dropped at the end of the statement.
PhysicSetController ==
    /\ tpc["physic"] = "ev_write"
    /\ IF ntanks = 0
       THEN Panic("physic")
       ELSE Unlock("physic", {"tanks"}, "events")
    /\ UNCHANGED ntanks /\ OthersIdle

\* for tank in self.tanks.lock().unwrap().iter()
PhysicLockTanksLoop ==
    /\ tpc["physic"] = "for_lock"
    /\ Lock("physic", "tanks", "for_body")
    /\ UNCHANGED ntanks /\ OthersIdle

\* The forces of all tanks are applied; the guard of tanks is dropped
\* after the loop.
PhysicApplyForces ==
    /\ tpc["physic"] = "for_body"
    /\ Unlock("physic", {"tanks"}, "step")
    /\ UNCHANGED ntanks /\ OthersIdle

\* pipeline.step(..); physical.seq_number += 1
PhysicStep ==
    /\ tpc["physic"] = "step"
    /\ tpc' = [tpc EXCEPT !["physic"] = "unlock"]
    /\ UNCHANGED <<mx, poisoned, ntanks>> /\ OthersIdle

\* drop(physical_mg) before the sleep, or the guard going out of scope at
\* the end of the iteration.
PhysicUnlock ==
    /\ tpc["physic"] = "unlock"
    /\ Unlock("physic", {"physical"}, "loop")
    /\ UNCHANGED ntanks /\ OthersIdle

\* ---- draw
DrawLocksTanksFirst == <<"render", "tanks", "physical">>

\* The locks draw takes, in the order of its statements; all three guards
\* live to the end of the function.
DrawLocks == <<"render", "physical", "tanks">>

\* A frame calls draw.
DrawBegin ==
    /\ tpc["draw"] = "idle"
    /\ tpc' = [tpc EXCEPT !["draw"] = "locking"]
    /\ UNCHANGED <<mx, poisoned, ntanks>> /\ OthersIdle

\* The next lock().unwrap() of draw.
DrawLock ==
    /\ tpc["draw"] = "locking"
    /\ LET n == Cardinality(HeldBy("draw")) + 1
       IN  Lock("draw", DrawLocks[n],
                IF n = Len(DrawLocks) THEN "reading" ELSE "locking")
    /\ UNCHANGED ntanks /\ OthersIdle

\* The loop over the tanks reads the body positions and records the draw
\* calls; it returns Ok after the last tank or Err from builder.draw(..)?,
\* and the guards are dropped either way.
DrawRead ==
    /\ tpc["draw"] = "reading"
    /\ \E ok \in BOOLEAN :
          Unlock("draw", Mutexes, IF ok \/ ntanks = 0 THEN "idle" ELSE "failed")
    /\ UNCHANGED ntanks /\ OthersIdle

\* ---- add_tank
\* self.physical.lock().unwrap()
AddLockPhysical ==
    /\ tpc["add"] = "insert_lock"
    /\ Lock("add", "physical", "insert")
    /\ UNCHANGED ntanks /\ OthersIdle

\* .rigid_body_set.insert(right_body); the guard is dropped at the end of
\* the statement.
AddInsert ==
    /\ tpc["add"] = "insert"
    /\ Unlock("add", {"physical"}, "push_lock")
    /\ UNCHANGED ntanks /\ OthersIdle

\* self.tanks.lock().unwrap()
AddLockTanks ==
    /\ tpc["add"] = "push_lock"
    /\ Lock("add", "tanks", "push")
    /\ UNCHANGED ntanks /\ OthersIdle

\* .push(Tank {..}); the guard is dropped; add_tank may be called again.
AddPush ==
    /\ tpc["add"] = "push"
    /\ ntanks' = ntanks + 1
    /\ Unlock("add", {"tanks"},
              IF ntanks + 1 < MaxTank THEN "insert_lock" ELSE "done")
    /\ OthersIdle

MutexSpecInit ==
    /\ SchedInit /\ MazeIdle /\ KeyboardIdle /\ GamepadIdle /\ TickIdle
    /\ FrameIdle /\ PrepareIdle /\ MutexInit

MutexNext ==
    \/ PhysicLockDt
    \/ PhysicUnlockDt
    \/ PhysicLockPhysical
    \/ PhysicEventSome
    \/ PhysicEventNone
    \/ PhysicLockTanksEvent
    \/ PhysicSetController
    \/ PhysicLockTanksLoop
    \/ PhysicApplyForces
    \/ PhysicStep
    \/ PhysicUnlock
    \/ DrawBegin
    \/ DrawLock
    \/ DrawRead
    \/ AddLockPhysical
    \/ AddInsert
    \/ AddLockTanks
    \/ AddPush

MutexSpec == MutexSpecInit /\ [][MutexNext]_all_vars

\* ================================================================ claims
Data == Unwrap(update_data)

\* Tanks admitted before the tick that computed a snapshot tagged seq.
TanksBefore(seq) == {i \in 1..Len(tanks) : tanks[i].born < seq}

SchedState == <<pc, tanks, seq_number, rigid_body_set, update_data, selector,
                pubs, handled, ticks_recv>>

\* C1: at most one snapshot is sent between two consecutive ticks, and once
\* the snapshot of the current tick has been sent the send operation is no
\* longer in the wait set.
C1_AtMostOnePublishPerTick ==
    /\ pubs <= 1
    /\ pubs = 1 => i_update_sender \notin selector

\* A snapshot was sent, the update thread is still in the same inner wait
\* and a render frame is about to poll again.
C1_Witness ==
    /\ pubs = 1
    /\ pc = "select"
    /\ scene = "alive"
    /\ rpc = "tank"

\* C2: the ticks of the snapshots received by the consumer are strictly
\* increasing from one received snapshot to the next.
C2_SeqStrictlyIncreasing ==
    last_recv # None => Unwrap(last_recv).prev < Unwrap(last_recv).seq

\* Two snapshots have been received.
C2_Witness ==
    /\ last_recv # None
    /\ Unwrap(last_recv).prev >= 1

C4_Original ==
    \A c \in 1..returned : \E i \in 1..Len(tanks) : tanks[i].controller = c

\* C4 as amended: add_controller returns as soon as the request is queued;
\* while the update thread has not returned, every controller passed to it
\* is either a tank or still queued, in the order of the calls.
C4_QueuedOrAdmitted ==
    LET all == [i \in 1..Len(tanks) |-> tanks[i].controller] \o ctrl_chan
    IN  /\ Len(all) <= returned
        /\ \A i \in 1..Len(all) : all[i] = i
        /\ pc \notin Terminated => Len(all) = returned

\* add_controller has returned twice, one request has become a tank and
\* the other is still queued.
C4_Witness ==
    /\ returned = 2
    /\ Len(tanks) = 1
    /\ Len(ctrl_chan) = 1
    /\ pc = "select"

\* C5: the stop message is taken only in the inner wait; once it has been
\* taken the update thread is stopped and ticks, publishes and admits no
\* more.
C5_StopIsTerminal ==
    /\ [](scene = "dropped" => pc = "stopped")
    /\ [][(scene' = "dropped" /\ scene # "dropped") => pc = "select"]_vars
    /\ [][pc = "stopped" =>
            (SchedState' = SchedState /\ last_recv' = last_recv)]_vars

\* The stop message was taken after a tank had been admitted.
C5_Witness ==
    /\ pc = "stopped"
    /\ scene = "dropped"
    /\ Len(tanks) >= 1

\* Some peer end of a channel of the Select no longer exists.
PeerGone == ~fire_alive \/ scene \in {"released", "dropped", "panicked"}

\* C6: once a peer end is gone, the update thread in its loop eventually
\* returns, and after it has returned it ticks and publishes no more.
C6_DisconnectTerminates ==
    /\ (PeerGone /\ pc \in {"tick", "select"}) ~> (pc \in Terminated)
    /\ [][(pc \in Terminated) =>
            (SchedState' = SchedState /\ last_recv' = last_recv)]_vars

\* The update thread returned with an error after having ticked.
C6_Witness ==
    /\ pc = "failed"
    /\ seq_number >= 1
    /\ PeerGone

\* C7: seq_number starts at 0, changes only in update_tick, by one;
\* update_tick runs once when the loop starts and once per timer message
\* consumed.
C7_SeqCountsTicks ==
    /\ seq_number = 0
    /\ [](/\ pc = "select" => seq_number = ticks_recv + 1
          /\ pc \in {"spawn", "maze_send", "add_maze"} => seq_number = 0
          /\ pc = "tick" => seq_number = ticks_recv
          /\ seq_number \in {ticks_recv, ticks_recv + 1})
    /\ [][seq_number' # seq_number =>
            /\ seq_number' = seq_number + 1
            /\ pc = "tick"
            /\ pc' = "select"]_vars
    /\ [][ticks_recv' # ticks_recv =>
            /\ ticks_recv' = ticks_recv + 1
            /\ pc = "select"
            /\ pc' = "tick"]_vars

\* A timer message has been consumed and the tick it started has run.
C7_Witness ==
    /\ ticks_recv >= 1
    /\ seq_number = ticks_recv + 1
    /\ pc = "select"

\* C8: handling an admission request appends one tank and leaves the tick
\* count, the existing tanks and bodies, the pending snapshot and the
\* position of the update thread unchanged; a snapshot holds only tanks
\* admitted before its tick.
C8_AdmissionFrame ==
    /\ [][tanks' # tanks =>
            /\ Len(tanks') = Len(tanks) + 1
            /\ SubSeq(tanks', 1, Len(tanks)) = tanks
            /\ SubSeq(rigid_body_set', 1, Len(rigid_body_set)) = rigid_body_set
            /\ seq_number' = seq_number
            /\ update_data' = update_data
            /\ selector' = selector
            /\ pc' = pc
            /\ pc = "select"]_vars
    /\ [](update_data # None => Len(Data.inst) = Cardinality(TanksBefore(Data.seq)))
    /\ [](last_recv # None =>
            Unwrap(last_recv).len = Cardinality(TanksBefore(Unwrap(last_recv).seq)))

\* A tank was admitted while the snapshot of the tick was still pending.
C8_Witness ==
    /\ pc = "select"
    /\ update_data # None
    /\ Len(tanks) > Len(Data.inst)

\* C9: the snapshot of a tick has one entry per tank present at the tick,
\* and entry i is read from the body of the i-th tank.
C9_SnapshotPerTank ==
    update_data # None =>
        /\ TanksBefore(Data.seq) = 1..Len(Data.inst)
        /\ \A i \in 1..Len(Data.inst) :
              LET body == rigid_body_set[tanks[i].rigid_body_handle]
              IN  /\ body.kind = "dynamic"
                  /\ Data.inst[i].position = body.position
                  /\ Data.inst[i].velocity = body.linvel
                  /\ tanks[i].controller = i

\* A snapshot of two tanks that are at different positions.
C9_Witness ==
    /\ update_data # None
    /\ Len(Data.inst) = 2
    /\ Data.inst[1].position # Data.inst[2].position

\* C10: the tank list only grows, by appending one tank per admission
\* request handled, and its length is the number of requests handled.
C10_TanksOnlyGrow ==
    /\ [](Len(tanks) = handled)
    /\ [][tanks' # tanks =>
            /\ handled' = handled + 1
            /\ Len(tanks') = Len(tanks) + 1
            /\ SubSeq(tanks', 1, Len(tanks)) = tanks]_vars
    /\ [][handled' # handled => tanks' # tanks]_vars

\* Two admission requests have been handled.
C10_Witness ==
    /\ handled = 2
    /\ Len(tanks) = 2

\* ------------------------------------------------------ claims on the maze
TheMaze == Unwrap(maze)
RenderMesh == Unwrap(render_mesh)
PhysicMesh == Unwrap(physic_mesh)
FirstRun == Unwrap(first_run)

\* C11: every maze produced by Maze::new has width in [4,12] and height in
\* [4,10], whatever the draws, and generation does not panic: no draw
\* reaches unreachable!().
C11_SizeInRange ==
    maze # None =>
        /\ TheMaze.width \in 4..12
        /\ TheMaze.height \in 4..10
        /\ \A y \in DOMAIN TheMaze.temp_maze :
              \A x \in DOMAIN TheMaze.temp_maze[y] :
                 TheMaze.temp_maze[y][x] # "unreachable"
        /\ gpc # "panicked"

C11_Witness ==
    /\ maze # None
    /\ TheMaze.width = 12
    /\ TheMaze.height = 10

\* C12: every triangle index emitted by a call of triangle_mesh is smaller
\* than the number of vertices emitted by the same call.
C12_IndexBelowVertexCount ==
    /\ render_mesh # None =>
          \A i \in 1..Len(RenderMesh.indices) :
             RenderMesh.indices[i] < Len(RenderMesh.vertices)
    /\ physic_mesh # None =>
          \A i \in 1..Len(PhysicMesh.indices) :
             \A j \in 1..3 :
                PhysicMesh.indices[i][j] < Len(PhysicMesh.vertices)

C12_Witness ==
    /\ render_mesh # None
    /\ \E i \in 1..Len(RenderMesh.indices) :
          RenderMesh.indices[i] = Len(RenderMesh.vertices) - 1

\* C13: triangle_mesh reads the direction grid only inside its bounds:
\* every temp_maze[row][col] it evaluates has row in [0,height-1] and col
\* in [0,width-1], and no call ends with a panic.
C13_ReadsInBounds ==
    /\ \A rc \in reads :
          /\ rc[1] \in 0..(TheMaze.height - 1)
          /\ rc[2] \in 0..(TheMaze.width - 1)
    /\ gpc # "panicked"

C13_Witness ==
    /\ gpc = "done"
    /\ <<0, 0>> \in reads
    /\ <<TheMaze.height - 1, TheMaze.width - 1>> \in reads
    /\ <<0, TheMaze.width - 1>> \in reads
    /\ <<TheMaze.height - 1, 0>> \in reads

\* The vertices of list l that sit at the four indices of grid point
\* (x, y), as a set of coordinate pairs.
CornersAt(l, m, x, y) ==
    {l[4 * (x + y * (m.width + 1)) + j + 1] : j \in 0..3}

\* The four corners of the border square of grid point (x, y).
CornersOf(m, x, y) ==
    {<<Center(x, m.width) + dx, Center(y, m.height) + dy>> :
        dx \in {-1, 1}, dy \in {-1, 1}}

\* C14: triangle_mesh emits exactly 4*(width+1)*(height+1) vertices, and the
\* four corner vertices of grid point (x,y) are the ones at the indices
\* 4*(x + y*(width+1)) .. +3.
C14_VertexCountAndLayout ==
    render_mesh # None =>
        /\ Len(RenderMesh.vertices)
              = 4 * (TheMaze.width + 1) * (TheMaze.height + 1)
        /\ \A x \in 0..TheMaze.width :
              \A y \in 0..TheMaze.height :
                 CornersAt([k \in 1..Len(RenderMesh.vertices) |->
                               RenderMesh.vertices[k].position],
                           TheMaze, x, y)
                    = CornersOf(TheMaze, x, y)

C14_Witness ==
    /\ render_mesh # None
    /\ TheMaze.width = 5
    /\ TheMaze.height = 4
    /\ Len(RenderMesh.vertices) = 120

\* C15: the render call and the collision call of triangle_mesh on one maze
\* produce the same vertices in the same order, and the flat index list of
\* the render mesh is, three by three, the triangle list of the collision
\* mesh.
C15_SameTopology ==
    (render_mesh # None /\ physic_mesh # None) =>
        /\ Len(RenderMesh.vertices) = Len(PhysicMesh.vertices)
        /\ \A k \in 1..Len(RenderMesh.vertices) :
              RenderMesh.vertices[k].position = PhysicMesh.vertices[k].coords
        /\ Len(RenderMesh.indices) = 3 * Len(PhysicMesh.indices)
        /\ \A i \in 1..Len(PhysicMesh.indices) :
              <<RenderMesh.indices[3 * i - 2], RenderMesh.indices[3 * i - 1],
                RenderMesh.indices[3 * i]>> = PhysicMesh.indices[i]

C15_Witness ==
    /\ gpc = "done"
    /\ Len(PhysicMesh.indices) > 2 * (TheMaze.width + TheMaze.height) * 2

C17_Original ==
    maze # None =>
        /\ DOMAIN TheMaze.temp_maze = 0..TheMaze.height
        /\ \A y \in DOMAIN TheMaze.temp_maze :
              /\ DOMAIN TheMaze.temp_maze[y] = 0..TheMaze.width
              /\ \A x \in DOMAIN TheMaze.temp_maze[y] :
                    TheMaze.temp_maze[y][x] \in WallStatus

\* C17: the maze stores one direction from {Top,Right,Bottom,Left} for each
\* cell of a grid of height rows and width columns.
C17_GridOfCells ==
    maze # None =>
        /\ DOMAIN TheMaze.temp_maze = 0..(TheMaze.height - 1)
        /\ \A y \in DOMAIN TheMaze.temp_maze :
              /\ DOMAIN TheMaze.temp_maze[y] = 0..(TheMaze.width - 1)
              /\ \A x \in DOMAIN TheMaze.temp_maze[y] :
                    TheMaze.temp_maze[y][x] \in WallStatus

C17_Witness ==
    /\ maze # None
    /\ TheMaze.width # TheMaze.height
    /\ \A d \in WallStatus :
          \E y \in DOMAIN TheMaze.temp_maze :
             \E x \in DOMAIN TheMaze.temp_maze[y] :
                TheMaze.temp_maze[y][x] = d

\* The wall conditions as the claim states them.
WallRight(m, x, y) ==
    x < m.width /\ (y = 0 \/ y = m.height
                      \/ m.temp_maze[y - 1][x] = "Bottom"
                      \/ m.temp_maze[y][x] = "Top")

WallDown(m, x, y) ==
    y < m.height /\ (x = 0 \/ x = m.width
                       \/ m.temp_maze[y][x - 1] = "Right"
                       \/ m.temp_maze[y][x] = "Left")

\* The grid points whose vertices a triangle uses.
TrianglePoints(t) == {t[j] \div 4 : j \in 1..3}

\* C18: the triangles emitted are exactly two for each wall: between grid
\* points (x,y) and (x+1,y) when x < width and (y is the first or last row,
\* or the cell above stores Bottom, or the cell at (x,y) stores Top), and
\* between (x,y) and (x,y+1) when y < height and (x is the first or last
\* column, or the cell to the left stores Right, or the cell at (x,y) stores
\* Left); each uses vertices of its two grid points only.
C18_WallsAndTriangles ==
    physic_mesh # None =>
        LET m  == TheMaze
            T  == PhysicMesh.indices
            P  == [i \in 1..Len(T) |-> TrianglePoints(T[i])]
            N(pair) == Cardinality({i \in 1..Len(T) : P[i] = pair})
        IN  /\ \A k \in Points(m) :
                  /\ N({k, k + 1})
                        = IF WallRight(m, PointX(m, k), PointY(m, k))
                          THEN 2 ELSE 0
                  /\ N({k, k + m.width + 1})
                        = IF WallDown(m, PointX(m, k), PointY(m, k))
                          THEN 2 ELSE 0
            /\ \A i \in 1..Len(T) :
                  \E k \in Points(m) :
                     P[i] = {k, k + 1} \/ P[i] = {k, k + m.width + 1}

C18_Witness ==
    /\ gpc = "done"
    /\ \E x \in 1..(TheMaze.width - 1) :
          \E y \in 1..(TheMaze.height - 1) :
             /\ TheMaze.temp_maze[y - 1][x] = "Bottom"
             /\ TheMaze.temp_maze[y][x] # "Top"
    /\ \E x \in 1..(TheMaze.width - 1) :
          \E y \in 1..(TheMaze.height - 1) :
             /\ TheMaze.temp_maze[y - 1][x] # "Bottom"
             /\ TheMaze.temp_maze[y][x] = "Top"
    /\ \E x \in 1..(TheMaze.width - 1) :
          \E y \in 1..(TheMaze.height - 1) :
             ~WallRight(TheMaze, x, y) /\ WallDown(TheMaze, x, y)
    /\ \E x \in 1..(TheMaze.width - 1) :
          \E y \in 1..(TheMaze.height - 1) :
             WallRight(TheMaze, x, y) /\ ~WallDown(TheMaze, x, y)
    /\ \E x \in 1..(TheMaze.width - 1) :
          \E y \in 1..(TheMaze.height - 1) :
             ~WallRight(TheMaze, x, y) /\ ~WallDown(TheMaze, x, y)

\* -------------------------------------------------- claims on the keyboard
\* The key code of a movement key is held: the latest event that carried
\* it had state Pressed.
Held(i) ==
    /\ movement_keys[i][2] \in DOMAIN latest
    /\ latest[movement_keys[i][2]] = "Pressed"

Weight(i, w) == IF Held(i) THEN w ELSE 0

\* C19: with movement keys [forward, back, left, right], movement_status
\* returns rotation = 1.0*[right] - 1.0*[left] and acceleration =
\* 1.0*[forward] - 0.6*[back] (in fifths: 5 and 3), where a key counts only
\* if its latest event was Pressed; nothing else has any influence.
C19_MovementStatus ==
    status # None =>
        Unwrap(status) = << Weight(4, 5) - Weight(3, 5),
                            Weight(1, 5) - Weight(2, 3) >>

C19_Witness ==
    /\ status = Some(<<5, -3>>)
    /\ Held(4) /\ Held(2)
    /\ movement_keys[3][2] \in DOMAIN latest /\ ~Held(3)
    /\ movement_keys[1][2] \notin DOMAIN latest
    /\ "Q" \in DOMAIN latest /\ latest["Q"] = "Pressed"

\* C20 as stated: opposite keys held together cancel to 0 on each axis.
C20_Original ==
    status # None =>
        /\ (Held(3) /\ Held(4)) => Unwrap(status)[1] = 0
        /\ (Held(1) /\ Held(2)) => Unwrap(status)[2] = 0

\* C20: with left and right both held rotation is 0; with forward and back
\* both held acceleration is 1.0 - 0.6 = 0.4 (2 fifths), not 0.
C20_OppositeKeys ==
    status # None =>
        /\ (Held(3) /\ Held(4)) => Unwrap(status)[1] = 0
        /\ (Held(1) /\ Held(2)) => Unwrap(status)[2] = 2

C20_Witness ==
    /\ status = Some(<<0, 2>>)
    /\ \A i \in 1..4 : Held(i)

\* ----------------------------------------------- claims on the controllers
\* C21: whatever was pressed or deflected, for a keyboard and for a gamepad
\* controller, both components of a movement_status result are in [-1, 1]
\* (in fifths: -5 .. 5).
C21_StatusInRange ==
    status # None =>
        /\ Unwrap(status)[1] \in -5..5
        /\ Unwrap(status)[2] \in -5..5

C21_Witness ==
    /\ status = Some(<<5, 5>>)
    /\ \E id \in DOMAIN controllers :
          /\ gilrs[id].RightStickX = Some(3)
          /\ gilrs[id].DPadRight /\ ~gilrs[id].DPadLeft
          /\ gilrs[id].LeftStickY = Some(3)
          /\ gilrs[id].DPadUp /\ ~gilrs[id].DPadDown

\* The contributions to the two axes of a gamepad, as the claim names
\* them: right stick, left stick and D-pad.
ContribX(gamepad) ==
    {GetAxis(gamepad, "RightStickX"), GetAxis(gamepad, "LeftStickX"),
     GetButton(gamepad, "DPadRight", "DPadLeft")}

ContribY(gamepad) ==
    {GetAxis(gamepad, "RightStickY"), GetAxis(gamepad, "LeftStickY"),
     GetButton(gamepad, "DPadUp", "DPadDown")}

\* (largest positive contribution, or 0) + (most negative one, or 0)
Mix(S) ==
    (CHOOSE m \in S \cup {0} : \A s \in S \cup {0} : s <= m)
        + (CHOOSE m \in S \cup {0} : \A s \in S \cup {0} : m <= s)

\* A gamepad event has been handled in this step.
GamepadHandled == gilrs' # gilrs \/ controllers' # controllers

\* C22 as stated: after an event of a gamepad, each axis value of its
\* controller is the largest positive plus the most negative contribution.
C22_Original ==
    [][GamepadHandled =>
          (\A id \in DOMAIN controllers' :
              controllers'[id] = << Mix(ContribX(gilrs'[id])),
                                    Mix(ContribY(gilrs'[id])) >>)]_all_vars

\* C22: after an event of a gamepad, the rotation of its controller is the
\* largest positive plus the most negative contribution, and the
\* acceleration is that combination but never below -0.6 (-3 fifths).
C22_MixWithReverseCap ==
    [][GamepadHandled =>
          (\A id \in DOMAIN controllers' :
              controllers'[id]
                 = << Mix(ContribX(gilrs'[id])),
                      IF Mix(ContribY(gilrs'[id])) < -3 THEN -3
                      ELSE Mix(ContribY(gilrs'[id])) >>)]_all_vars

C22_Witness ==
    \E id \in DOMAIN controllers :
        /\ gilrs[id].RightStickX = Some(3)
        /\ gilrs[id].LeftStickX \in {None, Some(0)}
        /\ gilrs[id].DPadLeft /\ ~gilrs[id].DPadRight
        /\ gilrs[id].RightStickY = None
        /\ gilrs[id].LeftStickY \in {None, Some(0)}
        /\ gilrs[id].DPadDown /\ ~gilrs[id].DPadUp
        /\ controllers[id] = <<-2, -3>>

\* ---------------------------------------------- claims on the control loop
\* The signal of the keys whose latest event was Pressed, for the movement
\* keys [forward, back, left, right] of a controller.
LatestHeld(keys, i) ==
    /\ keys[i][2] \in DOMAIN latest
    /\ latest[keys[i][2]] = "Pressed"

LatestSignal(keys) ==
    << (IF LatestHeld(keys, 4) THEN 5 ELSE 0)
           - (IF LatestHeld(keys, 3) THEN 5 ELSE 0),
       (IF LatestHeld(keys, 1) THEN 5 ELSE 0)
           - (IF LatestHeld(keys, 2) THEN 3 ELSE 0) >>

\* C23: within a tick the tanks' controllers are read one after the other,
\* each once, and each read yields the signal of the latest event of every
\* key at the moment of the read: events that were overwritten before the
\* read have no influence.
C23_LastValue ==
    [][(tick_pos' # tick_pos) =>
          \/ /\ tick_pos < tick_tanks
             /\ tick_pos' = tick_pos + 1
             /\ tick_last' = Some(<<tick_pos',
                                    LatestSignal(TankKeys(tick_pos'))>>)
          \/ /\ tick_pos = tick_tanks
             /\ tick_pos' = 0]_all_vars

\* The forward key of the first tank was pressed and released again, and
\* the tank is read with no signal.
C23_Witness ==
    /\ "E" \in DOMAIN latest /\ latest["E"] = "Released"
    /\ tick_last = Some(<<1, <<0, 0>>>>)

\* ---------------------------------------------- claims on the frame clock
\* C24: the forecast written by a frame is the smaller of PHYSICAL_DT and
\* 0.99 times the time since the last snapshot: it never exceeds
\* PHYSICAL_DT, it is 0.99 * elapsed while that is smaller, and 1.0 s after
\* the last snapshot it is PHYSICAL_DT.
C24_ForecastCapped ==
    forecast # None =>
        /\ Unwrap(forecast) <= PHYSICAL_DT
        /\ Unwrap(forecast) <= 99 * elapsed
        /\ Unwrap(forecast) \in {PHYSICAL_DT, 99 * elapsed}
        /\ (elapsed >= 900) => Unwrap(forecast) = PHYSICAL_DT

\* A frame drawn 1.0 s (900 units) after the last snapshot.
C24_Witness ==
    /\ elapsed = 900
    /\ forecast = Some(PHYSICAL_DT)

\* ------------------------------------- further claims on scene and thread
\* C25: whatever the update thread is doing (not started, blocked in the
\* maze send, waiting in select with or without a snapshot on offer,
\* returned or panicked), a frame of a live scene can take its next poll
\* at once: neither poll waits for the thread.
C25_FrameNeverWaits ==
    scene = "alive" =>
        /\ (rpc = "tank") => ENABLED RenderPollTank
        /\ (rpc = "maze") => ENABLED RenderPollMaze

\* A frame is between its two polls while the update thread has returned
\* with an error.
C25_Witness ==
    /\ scene = "alive"
    /\ rpc = "maze"
    /\ pc = "failed"

\* C26: once a frame has received a snapshot, the instance count used for
\* drawing is the number of tanks in the snapshot received last.
C26_InstanceNumIsLastLength ==
    last_recv # None => instance_num = Unwrap(last_recv).len

\* Two tanks are drawn after snapshots of different ticks were received.
C26_Witness ==
    /\ last_recv # None
    /\ Unwrap(last_recv).prev >= 0
    /\ Unwrap(last_recv).len = 2
    /\ instance_num = 2

\* The number of add_maze calls so far: each adds one static body, and
\* nothing else does.
MazeBodies ==
    Cardinality({i \in DOMAIN rigid_body_set :
                    rigid_body_set[i].kind = "static"})

\* Nothing can happen to the update thread any more: it has returned, or
\* it is blocked in the maze send of a scene that draws no further frame.
ThreadOver ==
    \/ pc \in Terminated
    \/ pc = "maze_send" /\ scene # "alive"

C28_DropBlocksUntilStop ==
    [][(scene' # scene) =>
          \/ /\ scene = "alive"
             /\ scene' \in {"dropping", "released"}
          \/ /\ scene = "dropping"
             /\ scene' = "dropped"
             /\ pc = "select"
             /\ i_stop_receiver \in selector
             /\ pc' = "stopped"
          \/ /\ scene = "dropping"
             /\ scene' = "panicked"
             /\ pc \in Terminated]_all_vars

\* drop() has returned from a scene that never had a tank; the thread
\* quit with the snapshot of its tick still on offer.
C28_Witness ==
    /\ scene = "dropped"
    /\ pc = "stopped"
    /\ tanks = << >>
    /\ update_data # None

\* C30: whenever the send of the snapshot can be selected (the thread
\* waits in select and the send is still registered), update_data holds
\* the snapshot of the current tick, so taking it never panics.
C30_PublishNeverPanics ==
    /\ pc # "panicked"
    /\ (pc = "select" /\ i_update_sender \in selector) =>
          /\ update_data # None
          /\ Unwrap(update_data).seq = seq_number

\* The snapshot of the second tick is on offer to a frame that is about to
\* poll, after an earlier snapshot was published.
C30_Witness ==
    /\ pc = "select"
    /\ i_update_sender \in selector
    /\ update_data # None
    /\ seq_number = 2
    /\ last_recv # None
    /\ scene = "alive"
    /\ rpc = "tank"

\* ------------------------------------------- a further claim on the maze
\* The four sides of cell (cx, cy): the horizontal walls from grid points
\* (cx, cy) and (cx, cy + 1) and the vertical walls from (cx, cy) and
\* (cx + 1, cy).
Enclosed(m, cx, cy) ==
    /\ WallRight(m, cx, cy)
    /\ WallRight(m, cx, cy + 1)
    /\ WallDown(m, cx, cy)
    /\ WallDown(m, cx + 1, cy)

EnclosedCells(m) ==
    {c \in (0..(m.width - 1)) \X (0..(m.height - 1)) :
        Enclosed(m, c[1], c[2])}

\* The grid point (x, y) as the index of its first vertex divided by four.
PointAt(m, x, y) == y * (m.width + 1) + x

\* C29: nothing rejects a maze with a cell that is walled in: whenever the
\* directions drawn put a wall on all four sides of a cell, generation
\* returns that maze and the collision mesh has the two triangles of each
\* of the four walls, so the cell is cut off from its neighbours.
C29_EnclosedCellIsKept ==
    physic_mesh # None =>
        LET m == TheMaze
            T == PhysicMesh.indices
            N(pair) == Cardinality({i \in 1..Len(T) :
                                      TrianglePoints(T[i]) = pair})
        IN  \A c \in EnclosedCells(m) :
               /\ gpc \in {"physic", "done"}
               /\ N({PointAt(m, c[1], c[2]),
                     PointAt(m, c[1] + 1, c[2])}) = 2
               /\ N({PointAt(m, c[1], c[2] + 1),
                     PointAt(m, c[1] + 1, c[2] + 1)}) = 2
               /\ N({PointAt(m, c[1], c[2]),
                     PointAt(m, c[1], c[2] + 1)}) = 2
               /\ N({PointAt(m, c[1] + 1, c[2]),
                     PointAt(m, c[1] + 1, c[2] + 1)}) = 2

\* The generator has returned a maze with a walled-in cell that is not on
\* the border, and its collision mesh is built.
C29_Witness ==
    /\ physic_mesh # None
    /\ \E c \in EnclosedCells(TheMaze) :
          /\ c[1] \in 1..(TheMaze.width - 2)
          /\ c[2] \in 1..(TheMaze.height - 2)

\* ------------------------------------------ claims on hand-off and order
\* C31: a snapshot is handed over only while the update thread waits in
\* select with the send registered, and the snapshot received is the one
\* of the thread's latest tick; after a tick the thread holds the snapshot
\* of that tick and no older one, so a snapshot that was not taken is never
\* delivered later.
C31_NeverStale ==
    /\ [][(last_recv' # last_recv) =>
            /\ pc = "select"
            /\ i_update_sender \in selector
            /\ last_recv' # None
            /\ Unwrap(last_recv').seq = seq_number
            /\ seq_number' = seq_number
            /\ update_data' = None]_all_vars
    /\ [][(seq_number' # seq_number) =>
            /\ update_data' # None
            /\ Unwrap(update_data').seq = seq_number']_all_vars

\* The snapshot of the first tick was never taken; the first snapshot the
\* frame received is the one of the second tick.
C31_Witness ==
    /\ last_recv # None
    /\ Unwrap(last_recv).seq = 2
    /\ Unwrap(last_recv).prev = -1
    /\ seq_number = 2

\* C32: until a render frame has taken the maze data, the update thread
\* has not ticked, has published no snapshot and has handled no admission
\* request; so a frame that has received a snapshot has received the maze
\* before.
C32_MazeFirst ==
    /\ ~maze_recv =>
          /\ pc \in {"spawn", "maze_send", "failed"}
          /\ seq_number = 0
          /\ update_data = None
          /\ last_recv = None
          /\ tanks = << >>
          /\ handled = 0
    /\ last_recv # None => maze_recv

\* Two admission requests wait in the queue while the thread is blocked in
\* the maze send and a frame, whose first poll found no snapshot, is about
\* to poll the maze channel.
C32_Witness ==
    /\ ~maze_recv
    /\ pc = "maze_send"
    /\ Len(ctrl_chan) = 2
    /\ scene = "alive"
    /\ rpc = "maze"

\* C33: dropping the scene never panics and never waits on an update
\* thread that cannot take the stop message: drop() is not blocked in its
\* send while the thread is itself blocked in the maze send, and its send
\* never fails on a thread that has returned.
C33_DropCompletes ==
    /\ scene # "panicked"
    /\ ~(scene = "dropping" /\ pc = "maze_send")

\* The controllers that are tanks, in the order of the tank list.
Admitted == [i \in 1..Len(tanks) |-> tanks[i].controller]

\* C34 as stated: no request passed to add_controller while the thread was
\* running is lost, so none is left in the queue when the thread has
\* ended.
C34_Original ==
    pc \in Terminated => ctrl_chan = << >>

\* C34: requests are neither reordered nor duplicated: the tanks followed
\* by the queue are the controllers in the order of the calls, each once;
\* and a request that is queued while the thread is in its loop becomes a
\* tank unless the thread returns first (stop or disconnect), in which
\* case the requests still queued are lost.
C34_InOrderUnlessReturned ==
    /\ [](\A i \in 1..Len(Admitted \o ctrl_chan) :
             (Admitted \o ctrl_chan)[i] = i)
    /\ [](pc \notin Terminated => Len(Admitted \o ctrl_chan) = returned)
    /\ \A c \in 1..MaxCtrl :
          (pc \in {"tick", "select"}
             /\ \E i \in 1..Len(ctrl_chan) : ctrl_chan[i] = c)
          ~> (\/ \E i \in 1..Len(tanks) : tanks[i].controller = c
              \/ pc \in Terminated)

\* Both requests were passed before the maze hand-off and the thread's
\* first tick, and both are tanks, in the order of the calls.
C34_Witness ==
    /\ Admitted = <<1, 2>>
    /\ first_at = 0
    /\ tanks[1].born = 1
    /\ tanks[2].born = 1
    /\ pc = "select"

\* The triangles of the two meshes: the render mesh has a flat index list,
\* the collision mesh a list of triples.
RenderTriangles ==
    [i \in 1..(Len(RenderMesh.indices) \div 3) |->
        <<RenderMesh.indices[3 * i - 2], RenderMesh.indices[3 * i - 1],
          RenderMesh.indices[3 * i]>>]

\* The number of triangles of a list between two grid points.
TrianglesBetween(T, p, q) ==
    Cardinality({i \in 1..Len(T) : TrianglePoints(T[i]) = {p, q}})

Perimeter(m, T) ==
    /\ \A x \in 0..(m.width - 1) :
          /\ TrianglesBetween(T, PointAt(m, x, 0), PointAt(m, x + 1, 0)) = 2
          /\ TrianglesBetween(T, PointAt(m, x, m.height),
                                 PointAt(m, x + 1, m.height)) = 2
    /\ \A y \in 0..(m.height - 1) :
          /\ TrianglesBetween(T, PointAt(m, 0, y), PointAt(m, 0, y + 1)) = 2
          /\ TrianglesBetween(T, PointAt(m, m.width, y),
                                 PointAt(m, m.width, y + 1)) = 2

\* C35: whatever the directions drawn, both meshes of a maze have the wall
\* along the whole perimeter: the horizontal wall from (x, 0) and from
\* (x, height) for every x < width, and the vertical wall from (0, y) and
\* from (width, y) for every y < height, two triangles each.
C35_PerimeterClosed ==
    /\ render_mesh # None => Perimeter(TheMaze, RenderTriangles)
    /\ physic_mesh # None => Perimeter(TheMaze, PhysicMesh.indices)

\* Both meshes are built for a maze of the largest size none of whose
\* corner cells stores a direction that points at the perimeter.
C35_Witness ==
    /\ physic_mesh # None
    /\ render_mesh # None
    /\ TheMaze.width = 12
    /\ TheMaze.height = 10
    /\ TheMaze.temp_maze[0][0] \notin {"Top", "Left"}
    /\ TheMaze.temp_maze[9][11] \notin {"Bottom", "Right"}

\* ---------------------------------------- a further claim on the gamepad
\* C36: the cached acceleration of a gamepad controller is never below
\* -0.6 (-3 fifths); the cached signal is (0, 0) as long as no event of
\* its gamepad has been handled; and handling an event of a gamepad that
\* has no controller changes no cached signal.
C36_GamepadCache ==
    /\ [](\A id \in DOMAIN controllers : controllers[id][2] >= -3)
    /\ [](\A id \in DOMAIN controllers \ touched :
             controllers[id] = <<0, 0>>)
    /\ [][(gp_last' # None /\ Unwrap(gp_last') \notin DOMAIN controllers)
             => controllers' = controllers]_all_vars

\* The D-pad of the gamepad with the controller is held down, the only
\* events so far came from another gamepad, and the cache is still (0, 0).
C36_Witness ==
    /\ controllers # << >>
    /\ touched = {}
    /\ gp_last # None
    /\ \E id \in DOMAIN controllers :
          /\ gilrs[id].DPadDown /\ ~gilrs[id].DPadUp
          /\ controllers[id] = <<0, 0>>

\* ------------------------------------------- a claim on the prepare scene
\* The event that made the last player join.
JoinedBy(c, ev, pad) ==
    \/ c = RedController /\ ev = Some(<<"key", Some("Q"), "Pressed">>)
    \/ c = GreenController /\ ev = Some(<<"key", Some("M"), "Pressed">>)
    \/ /\ c[1] = "Gamepad"
       /\ ev = Some(<<"pad", Some("South"), "Pressed">>)
       /\ pad # None
       /\ c[2] = ToString(Unwrap(pad))

\* C37: the wait loop runs while fewer than two players have joined and
\* ends with exactly two; an event adds at most one player, and only Q
\* pressed, M pressed or South pressed on a gamepad adds one; the new
\* scene gets the two controllers in join order, and gets none before.
C37_TwoPlayersInJoinOrder ==
    /\ [](prep = "wait" => Len(players) < 2)
    /\ [](prep \in {"handover", "done"} => Len(players) = 2)
    /\ [](added = IF prep = "done"
                  THEN <<players[1].controller, players[2].controller>>
                  ELSE << >>)
    /\ [][(players' # players) =>
            /\ Len(players') = Len(players) + 1
            /\ SubSeq(players', 1, Len(players)) = players
            /\ JoinedBy(players'[Len(players')].controller,
                        prep_event', gp_last')]_all_vars

\* A gamepad joined first and the green keyboard player second, and the
\* scene got them in that order.
C37_Witness ==
    /\ prep = "done"
    /\ added[1][1] = "Gamepad"
    /\ added[2] = GreenController

\* -------------------------------------- a claim on the mutex-based scene
\* The mutex whose lock() the thread t is about to call or is waiting in.
WaitsFor(t) ==
    CASE t = "physic" /\ tpc[t] \in {"dt_lock", "loop"} -> Some("physical")
      [] t = "physic" /\ tpc[t] \in {"ev_lock", "for_lock"} -> Some("tanks")
      [] t = "draw" /\ tpc[t] = "locking" ->
            Some(DrawLocks[Cardinality(HeldBy(t)) + 1])
      [] t = "add" /\ tpc[t] = "insert_lock" -> Some("physical")
      [] t = "add" /\ tpc[t] = "push_lock" -> Some("tanks")
      [] OTHER -> None

\* Some threads wait for locks held only among themselves, or a finished
\* thread still holds a lock.
Deadlocked ==
    \/ \E S \in (SUBSET Threads) \ {{}} :
          \A t \in S : /\ WaitsFor(t) # None
                       /\ mx[Unwrap(WaitsFor(t))] \in S
    \/ \E t \in Threads :
          /\ tpc[t] \in {"panicked", "failed", "done"}
          /\ HeldBy(t) # {}

LockRank(m) ==
    CASE m = "render" -> 1 [] m = "physical" -> 2 [] m = "tanks" -> 3

\* C38: no set of threads waits in a cycle and no finished thread keeps a
\* lock; a thread that acquires a lock holds only locks earlier in the
\* order render, physical, tanks; and while draw reads the body positions
\* run_physic is outside the part of its loop that runs under the
\* physical lock (events, forces, step).
C38_NoDeadlock ==
    /\ [](~Deadlocked)
    /\ [][\A t \in Threads : \A m \in Mutexes :
            (mx'[m] = t /\ mx[m] # t) =>
                \A h \in HeldBy(t) : LockRank(h) < LockRank(m)]_all_vars
    /\ [](tpc["draw"] = "reading" =>
            /\ HeldBy("draw") = Mutexes
            /\ tpc["physic"] \in {"dt_lock", "loop", "panicked"})
    /\ [](tpc["physic"] \in {"events", "ev_lock", "ev_write", "for_lock",
                            "for_body", "step", "unlock"} =>
            mx["physical"] = "physic")

\* run_physic holds physical and tanks inside its loop over the tanks,
\* draw holds render and waits for physical, and add_tank waits for tanks
\* with one tank already added.
C38_Witness ==
    /\ tpc["physic"] = "for_body"
    /\ tpc["draw"] = "locking"
    /\ HeldBy("draw") = {"render"}
    /\ tpc["add"] = "push_lock"
    /\ ntanks = 1

=============================================================================
